---------------------------- MODULE Spec2Model ----------------------------
(***************************************************************************)
(* A model of the document translation pipeline of doctranslatetool        *)
(* (src/document_processor.py): extraction of a document model from a      *)
(* .docx or .pdf input, truncation to a percentage, the per-unit           *)
(* translation loop with run redistribution, and the rebuilders.           *)
(*                                                                         *)
(* Texts are sequences of one-character strings.  Python's float           *)
(* arithmetic (true division, multiplication, int()) is modelled as IEEE   *)
(* 754 binary64 with round-to-nearest-even on bit sequences, because the   *)
(* cut positions of the code are computed with it.                         *)
(***************************************************************************)
EXTENDS Integers, Sequences, FiniteSets, TLC

(***************************************************************************)
(* Generic helpers on sequences.                                           *)
(***************************************************************************)
Front(s) == SubSeq(s, 1, Len(s) - 1)

Last(s) == s[Len(s)]

\* Python slice s[a:b] for 0 <= a, b (0-based, end exclusive, clamped).
Slice(s, a, b) ==
    LET hi == IF b > Len(s) THEN Len(s) ELSE b
    IN  IF a >= hi THEN <<>> ELSE SubSeq(s, a + 1, hi)

RECURSIVE Concat(_)
Concat(ss) == IF ss = <<>> THEN <<>> ELSE ss[1] \o Concat(Tail(ss))

\* Python's "needle in text" for strings.
Contains(text, needle) ==
    \E i \in 0..(Len(text) - Len(needle)) :
        SubSeq(text, i + 1, i + Len(needle)) = needle

Pow2(k) == 2 ^ k


(***************************************************************************)
(* Texts.  A text is a sequence of one-character strings; the literals of  *)
(* the code and the sample texts of the inputs are spelled out.            *)
(***************************************************************************)
T_Mission == <<"M", "i", "s", "s", "i", "o", "n">>

T_MissionPhase == <<"M", "i", "s", "s", "i", "o", "n", " ", "P", "h", "a", "s", "e">>

T_Biograph == <<"B", "i", "o", "g", "r", "a", "p", "h">>

T_WARNING == <<"W", "A", "R", "N", "I", "N", "G">>

T_NOTICE == <<"N", "O", "T", "I", "C", "E">>

T_PROCEDURE == <<"P", "R", "O", "C", "E", "D", "U", "R", "E">>

T_PROTOCOL == <<"P", "R", "O", "T", "O", "C", "O", "L">>

T_TitleColon == <<"T", "i", "t", "l", "e", ":">>

T_Chapter == <<"C", "h", "a", "p", "t", "e", "r">>

T_Section == <<"S", "e", "c", "t", "i", "o", "n">>

T_heading == <<"h", "e", "a", "d", "i", "n", "g">>

T_title == <<"t", "i", "t", "l", "e">>

MissionBriefing == <<"M", "i", "s", "s", "i", "o", "n", " ", "B", "r", "i", "e", "f", "i", "n", "g">>

MissionPhase2 == <<"M", "i", "s", "s", "i", "o", "n", " ", "P", "h", "a", "s", "e", " ", "2">>

BiographUnit == <<"B", "i", "o", "g", "r", "a", "p", "h", " ", "u", "n", "i", "t">>

SeeProtocol == <<"s", "e", "e", " ", "p", "r", "o", "t", "o", "c", "o", "l">>

PlainText == <<"p", "l", "a", "i", "n", " ", "t", "e", "x", "t">>

WarningHot == <<"W", "a", "r", "n", "i", "n", "g", ":", " ", "h", "o", "t">>

\* n copies of character c.
Rep(c, n) == [i \in 1..n |-> c]

LowerLetters == <<"a", "b", "c", "d", "e", "f", "g", "h", "i", "j", "k", "l", "m",
                  "n", "o", "p", "q", "r", "s", "t", "u", "v", "w", "x", "y", "z">>

UpperLetters == <<"A", "B", "C", "D", "E", "F", "G", "H", "I", "J", "K", "L", "M",
                  "N", "O", "P", "Q", "R", "S", "T", "U", "V", "W", "X", "Y", "Z">>

\* str.upper() and str.lower(), on the letters a-z.
UpperChar(c) ==
    IF \E i \in 1..26 : LowerLetters[i] = c
    THEN UpperLetters[CHOOSE i \in 1..26 : LowerLetters[i] = c]
    ELSE c

LowerChar(c) ==
    IF \E i \in 1..26 : UpperLetters[i] = c
    THEN LowerLetters[CHOOSE i \in 1..26 : UpperLetters[i] = c]
    ELSE c

Upper(text) == [i \in 1..Len(text) |-> UpperChar(text[i])]

Lower(text) == [i \in 1..Len(text) |-> LowerChar(text[i])]

IsSpace(c) == c \in {" ", "\n", "\t"}

\* str.strip().
Strip(text) ==
    IF \A i \in 1..Len(text) : IsSpace(text[i]) THEN <<>>
    ELSE LET a == CHOOSE i \in 1..Len(text) :
                      ~IsSpace(text[i]) /\ \A j \in 1..(i - 1) : IsSpace(text[j])
             b == CHOOSE i \in 1..Len(text) :
                      ~IsSpace(text[i]) /\ \A j \in (i + 1)..Len(text) : IsSpace(text[j])
         IN  SubSeq(text, a, b)

\* str.startswith(prefix).
StartsWith(text, prefix) ==
    Len(text) >= Len(prefix) /\ SubSeq(text, 1, Len(prefix)) = prefix

\* The marker of a key a dict does not hold (no text equals it: a text has
\* one character per element).
Absent == <<"absent">>

(***************************************************************************)
(* IEEE 754 binary64 arithmetic, as far as the code uses it: x / y of two  *)
(* ints, n * f of an int and a float, int(f).  A float is the exact value  *)
(* bits / 2^sh, bits a most-significant-first bit sequence of at most 53   *)
(* bits with a leading 1 (<<>> is 0.0).                                    *)
(***************************************************************************)
Mantissa == 53

RECURSIVE NatBits(_)
NatBits(n) == IF n = 0 THEN <<>> ELSE Append(NatBits(n \div 2), n % 2)

RECURSIVE BitsToNat(_)
BitsToNat(bits) ==
    IF bits = <<>> THEN 0 ELSE 2 * BitsToNat(Front(bits)) + Last(bits)

\* The next k bits of the binary expansion of r / b (0 <= r < b).
RECURSIVE FracBits(_, _, _)
FracBits(r, b, k) ==
    IF k = 0 THEN <<>>
    ELSE IF 2 * r >= b THEN <<1>> \o FracBits(2 * r - b, b, k - 1)
    ELSE <<0>> \o FracBits(2 * r, b, k - 1)

\* The remainder left after those k bits.
RECURSIVE FracRem(_, _, _)
FracRem(r, b, k) ==
    IF k = 0 THEN r
    ELSE IF 2 * r >= b THEN FracRem(2 * r - b, b, k - 1)
    ELSE FracRem(2 * r, b, k - 1)

\* Zero bits of the expansion of r / b before its first 1 (0 < r < b).
RECURSIVE LeadZeros(_, _)
LeadZeros(r, b) == IF 2 * r >= b THEN 0 ELSE 1 + LeadZeros(2 * r, b)

RECURSIVE IncrBits(_)
IncrBits(bits) ==
    IF bits = <<>> THEN <<1>>
    ELSE IF Last(bits) = 0 THEN Append(Front(bits), 1)
    ELSE Append(IncrBits(Front(bits)), 0)

\* Round an exact bit sequence (leading 1; sticky: nonzero bits follow it)
\* to 53 bits, ties to even.  Returns <<bits, number of low bits dropped>>.
RoundNearestEven(bits, sticky) ==
    LET L == Len(bits)
    IN  IF L <= Mantissa THEN <<bits, 0>>
        ELSE LET top   == SubSeq(bits, 1, Mantissa)
                 guard == bits[Mantissa + 1]
                 st    == sticky \/ \E i \in (Mantissa + 2)..L : bits[i] = 1
                 up    == guard = 1 /\ (st \/ top[Mantissa] = 1)
                 r     == IF up THEN IncrBits(top) ELSE top
             IN  IF Len(r) > Mantissa
                 THEN <<SubSeq(r, 1, Mantissa), L - Mantissa + 1>>
                 ELSE <<r, L - Mantissa>>

FloatZero == [bits |-> <<>>, sh |-> 0]

\* Python a / b for ints a >= 0, b > 0.
FloatDiv(a, b) ==
    IF a = 0 THEN FloatZero
    ELSE LET ib   == NatBits(a \div b)
             r0   == a % b
             z    == IF ib = <<>> THEN LeadZeros(r0, b) ELSE 0
             k    == Mantissa + 1 - Len(ib)
             rz   == r0 * Pow2(z)
             full == ib \o FracBits(rz, b, k)
             rnd  == RoundNearestEven(full, FracRem(rz, b, k) # 0)
         IN  [bits |-> rnd[1], sh |-> z + k - rnd[2]]

\* bits * n as an exact bit sequence (n >= 1).
RECURSIVE MulAcc(_, _, _)
MulAcc(bits, n, carry) ==
    IF bits = <<>> THEN NatBits(carry)
    ELSE LET v == n * Last(bits) + carry
         IN  IF v % 2 = 0 THEN Append(MulAcc(Front(bits), n, v \div 2), 0)
             ELSE Append(MulAcc(Front(bits), n, v \div 2), 1)

\* Python n * f for an int n >= 0 and a float f.
FloatMulNat(n, f) ==
    IF n = 0 \/ f.bits = <<>> THEN FloatZero
    ELSE LET rnd == RoundNearestEven(MulAcc(f.bits, n, 0), FALSE)
         IN  [bits |-> rnd[1], sh |-> f.sh - rnd[2]]

\* Python int(f) for a float f >= 0.
FloatTrunc(f) ==
    LET ibits == Len(f.bits) - f.sh
    IN  IF f.bits = <<>> \/ ibits <= 0 THEN 0
        ELSE IF f.sh <= 0 THEN BitsToNat(f.bits) * Pow2(0 - f.sh)
        ELSE BitsToNat(SubSeq(f.bits, 1, ibits))

\* int(n * (a / b)), the expression of both the percentage cut and the run
\* redistribution.
PyIntMulDiv(n, a, b) == FloatTrunc(FloatMulNat(n, FloatDiv(a, b)))

\* bits padded with low zeros to 53 bits (the value's exponent is kept by
\* the caller).
PadBits(bits) == bits \o Rep(0, Mantissa - Len(bits))

\* Python f > g for floats f, g >= 0.
FloatGt(f, g) ==
    IF f.bits = <<>> THEN FALSE
    ELSE IF g.bits = <<>> THEN TRUE
    ELSE LET ef == Len(f.bits) - f.sh
             eg == Len(g.bits) - g.sh
             fb == PadBits(f.bits)
             gb == PadBits(g.bits)
         IN  \/ ef > eg
             \/ /\ ef = eg
                /\ \E i \in 1..Mantissa :
                       /\ fb[i] > gb[i]
                       /\ \A j \in 1..(i - 1) : fb[j] = gb[j]

(***************************************************************************)
(* layout_compensation.  scale is in hundredths and tracking in tenths     *)
(* (0.95 is 95, -0.5 is -5); the float literals 1.2 and 1.1 are the        *)
(* doubles nearest to 12/10 and 11/10.                                     *)
(***************************************************************************)
Literal_1_2 == FloatDiv(12, 10)

Literal_1_1 == FloatDiv(11, 10)

layout_compensation_ge(original, translated) ==
    IF original = <<>> \/ translated = <<>>
    THEN [scale |-> 100, tracking |-> 0]
    ELSE LET len_ratio == FloatDiv(Len(translated), Len(original))
         IN  IF ~FloatGt(Literal_1_2, len_ratio)
             THEN [scale |-> 95, tracking |-> -5]
             ELSE IF ~FloatGt(Literal_1_1, len_ratio)
             THEN [scale |-> 98, tracking |-> -3]
             ELSE [scale |-> 100, tracking |-> 0]

layout_compensation(original, translated) ==
    IF original = <<>> \/ translated = <<>>
    THEN [scale |-> 100, tracking |-> 0]
    ELSE LET len_ratio == FloatDiv(Len(translated), Len(original))
         IN  IF FloatGt(len_ratio, Literal_1_2)
             THEN [scale |-> 95, tracking |-> -5]
             ELSE IF FloatGt(len_ratio, Literal_1_1)
             THEN [scale |-> 98, tracking |-> -3]
             ELSE [scale |-> 100, tracking |-> 0]

(***************************************************************************)
(* Text blocks of a PDF and their format markers.  border_color is "none"  *)
(* while the dict holds no 'border_color' key.                             *)
(***************************************************************************)
Markers(is_title, is_text_box, is_centered, has_border) ==
    [is_title |-> is_title, is_heading |-> FALSE, is_text_box |-> is_text_box,
     is_centered |-> is_centered, has_border |-> has_border,
     border_color |-> "none"]

TextBlock(text, page, bbox, markers) ==
    [text |-> text, page |-> page, bbox |-> bbox, format_markers |-> markers]

BoxKeywordLimit == 80

TitleKeywords == {T_TitleColon, T_Chapter, T_Section, T_Mission}

\* The marker test of the secondary pass.
IsRedBoxText(text) ==
    \/ Contains(text, T_MissionPhase)
    \/ Contains(text, T_Biograph)
    \/ Contains(Upper(text), T_PROCEDURE)
    \/ Contains(Upper(text), T_PROTOCOL)

\* The title test of the secondary pass.
IsTitleLikeText(text) ==
    /\ Len(Strip(text)) < BoxKeywordLimit
    /\ \E keyword \in TitleKeywords : Contains(text, keyword)

\* A pass that decides the title from the border flag it is about to set.
SecondaryPassBlock_reads_border(block) ==
    LET m  == block.format_markers
        m1 == [m EXCEPT !.is_title = IsTitleLikeText(block.text) /\ ~m.has_border]
        m2 == IF IsRedBoxText(block.text)
              THEN [m1 EXCEPT !.is_text_box = TRUE, !.has_border = TRUE,
                              !.border_color = "red"]
              ELSE m1
    IN  [block EXCEPT !.format_markers = m2]

\* One iteration of the secondary pass: the body of the loop over
\* pdf_meta['text_blocks'].
SecondaryPassBlock(block) ==
    LET m  == block.format_markers
        m1 == IF IsRedBoxText(block.text)
              THEN [m EXCEPT !.is_text_box = TRUE, !.has_border = TRUE,
                             !.border_color = "red"]
              ELSE m
        m2 == IF IsTitleLikeText(block.text)
              THEN [m1 EXCEPT !.is_title = TRUE]
              ELSE m1
    IN  [block EXCEPT !.format_markers = m2]

SecondaryPass(text_blocks) ==
    [k \in DOMAIN text_blocks |-> SecondaryPassBlock(text_blocks[k])]

(***************************************************************************)
(* The document model (a dict in the code).  A key a dict does not hold is *)
(* Absent (texts), "none" (names) or left out of the record's keys set.    *)
(***************************************************************************)
Min(a, b) == IF a < b THEN a ELSE b

Max(a, b) == IF a > b THEN a ELSE b

\* The sequence s without the elements that fail Keep.
RECURSIVE SelectSeqIdx(_, _)
SelectSeqIdx(s, keep) ==
    IF s = <<>> THEN <<>>
    ELSE IF keep[Len(s)]
         THEN Append(SelectSeqIdx(Front(s), keep), Last(s))
         ELSE SelectSeqIdx(Front(s), keep)

\* '\n'.join(texts).
RECURSIVE JoinLines(_)
JoinLines(texts) ==
    IF texts = <<>> THEN <<>>
    ELSE IF Len(texts) = 1 THEN texts[1]
    ELSE texts[1] \o <<"\n">> \o JoinLines(Tail(texts))

(***************************************************************************)
(* parse_docx.  A .docx file is what python-docx shows of it: paragraphs   *)
(* (text, style name or none, alignment, runs) and tables of cells (each a *)
(* list of paragraph texts).                                               *)
(***************************************************************************)
AlignCenter == 1

RunData(run) ==
    [text |-> run.text, bold |-> run.bold, italic |-> run.italic,
     size |-> run.size, translated_text |-> Absent]

\* The paragraph's dict; the runs of whitespace only are skipped.
ParaData(para) ==
    LET keep == [k \in DOMAIN para.runs |-> Strip(para.runs[k].text) # <<>>]
        runs == SelectSeqIdx(para.runs, keep)
    IN  [text |-> para.text,
         style |-> para.style,
         runs |-> [k \in DOMAIN runs |-> RunData(runs[k])],
         format_markers |->
             [is_title |-> \/ StartsWith(Lower(para.style), T_heading)
                           \/ StartsWith(Lower(para.style), T_title),
              is_heading |-> StartsWith(Lower(para.style), T_heading),
              is_text_box |-> FALSE,
              is_centered |-> para.alignment = AlignCenter,
              has_border |-> FALSE,
              border_color |-> "none"],
         page |-> 0,
         bbox |-> <<>>,
         translated_text |-> Absent]

\* A paragraph is kept when its text is not blank and reading its style
\* does not raise (a failing paragraph is logged and skipped).
ParaKept(para) == Strip(para.text) # <<>> /\ para.style # Absent

CellData(cell) ==
    LET keep == [k \in DOMAIN cell.paragraphs |-> Strip(cell.paragraphs[k]) # <<>>]
    IN  [text |-> JoinLines(cell.paragraphs),
         paragraphs |-> SelectSeqIdx(cell.paragraphs, keep),
         style |-> cell.style,
         row |-> 0, col |-> 0,
         translated_text |-> Absent]

\* A table of a .docx: 'rows' of cells and a 'style', no 'cells' key.
TableData(table) ==
    [has_cells |-> FALSE,
     cells |-> <<>>,
     style |-> table.style,
     rows |-> [r \in DOMAIN table.rows |->
                  [c \in DOMAIN table.rows[r] |-> CellData(table.rows[r][c])]]]

parse_docx(file) ==
    LET keep == [k \in DOMAIN file.paragraphs |-> ParaKept(file.paragraphs[k])]
        kept == SelectSeqIdx(file.paragraphs, keep)
    IN  [origin |-> "docx",
         keys |-> {},
         source_lang |-> "none", target_lang |-> "none", percent |-> 0,
         pages |-> <<>>,
         paragraphs |-> [k \in DOMAIN kept |-> ParaData(kept[k])],
         tables |-> [k \in DOMAIN file.tables |-> TableData(file.tables[k])]]

(***************************************************************************)
(* extract_pdf_metadata.  A PDF file is what pdfplumber reads from it: it  *)
(* opens or not; each page has a width, the glyphs of page.chars (text,    *)
(* x0, top as y0, x1, bottom), whether the glyphs can be ordered (a glyph  *)
(* without coordinates makes the primary method raise), and the paragraphs *)
(* of page.extract_text(), which joins them with a blank line.             *)
(***************************************************************************)
LineGap == 5

CenterTolerance == 100

TitleLenLimit == 100

TitleLineLimit == 3

FallbackStep == 50

BackupStep == 30

\* sorted(chars, key=(y0, x0)) and line.sort(key=x0): a stable insertion
\* sort, by_y telling whether y0 is part of the key.
RECURSIVE SortChars(_, _)
SortChars(chars, by_y) ==
    IF chars = <<>> THEN <<>>
    ELSE LET rest == SortChars(Front(chars), by_y)
             c    == Last(chars)
             before(d) == IF by_y THEN d.y0 < c.y0 \/ (d.y0 = c.y0 /\ d.x0 <= c.x0)
                          ELSE d.x0 <= c.x0
             n    == Cardinality({ i \in DOMAIN rest : before(rest[i]) })
         IN  SubSeq(rest, 1, n) \o <<c>> \o SubSeq(rest, n + 1, Len(rest))

\* The loop that groups the sorted glyphs into lines: a glyph more than
\* LineGap below or above the previous one starts a line, and so does
\* the first glyph and any glyph after one with y0 = -1, the value last_y
\* has before the first glyph.
RECURSIVE ClusterLines(_)
ClusterLines(sorted_chars) ==
    IF sorted_chars = <<>> THEN <<>>
    ELSE LET done == ClusterLines(Front(sorted_chars))
             char == Last(sorted_chars)
         IN  IF done = <<>> THEN << <<char>> >>
             ELSE LET last_y == Last(Last(done)).y0
                      gap    == IF char.y0 >= last_y THEN char.y0 - last_y
                                ELSE last_y - char.y0
                  IN  IF last_y = 0 - 1 \/ gap > LineGap THEN Append(done, <<char>>)
                      ELSE [done EXCEPT ![Len(done)] = Append(@, char)]

SeqMin(s) == CHOOSE v \in { s[i] : i \in DOMAIN s } : \A i \in DOMAIN s : v <= s[i]

SeqMax(s) == CHOOSE v \in { s[i] : i \in DOMAIN s } : \A i \in DOMAIN s : v >= s[i]

\* "Biograph" or "Mission" in the text.
HasBoxName(text) == Contains(text, T_Biograph) \/ Contains(text, T_Mission)

\* The text block of one line of glyphs; line_idx counts from 0.  The
\* centre test |(x0 + x1) / 2 - width / 2| < 100 is taken on the doubles.
LineBlock(line, line_idx, page, page_num) ==
    LET chars     == SortChars(line, FALSE)
        line_text == [i \in DOMAIN chars |-> chars[i].text]
        x0 == SeqMin([i \in DOMAIN chars |-> chars[i].x0])
        y0 == SeqMin([i \in DOMAIN chars |-> chars[i].y0])
        x1 == SeqMax([i \in DOMAIN chars |-> chars[i].x1])
        y1 == SeqMax([i \in DOMAIN chars |-> chars[i].bottom])
        off == x0 + x1 - page.width
        is_centered == (IF off >= 0 THEN off ELSE 0 - off) < 2 * CenterTolerance
        is_title == line_idx < TitleLineLimit /\ Len(line_text) < TitleLenLimit
                        /\ is_centered
        is_text_box == \/ HasBoxName(line_text)
                       \/ Contains(Upper(line_text), T_WARNING)
                       \/ Contains(Upper(line_text), T_NOTICE)
    IN  TextBlock(line_text, page_num, <<x0, y0, x1, y1>>,
                  Markers(is_title, is_text_box, is_centered, is_text_box))

\* The primary method on a page with glyphs.
CharBlocks(page, page_num) ==
    LET found  == ClusterLines(SortChars(page.chars, TRUE))
        blocks == [k \in DOMAIN found |-> LineBlock(found[k], k - 1, page, page_num)]
        keep   == [k \in DOMAIN blocks |-> Strip(blocks[k].text) # <<>>]
    IN  SelectSeqIdx(blocks, keep)

\* page.extract_text(): the paragraphs joined by a blank line.
RECURSIVE JoinParagraphs(_)
JoinParagraphs(paragraphs) ==
    IF paragraphs = <<>> THEN <<>>
    ELSE IF Len(paragraphs) = 1 THEN paragraphs[1]
    ELSE paragraphs[1] \o <<"\n", "\n">> \o JoinParagraphs(Tail(paragraphs))

\* text.split('\n\n').
RECURSIVE SplitParagraphs(_, _)
SplitParagraphs(text, from) ==
    LET cuts == { i \in from..(Len(text) - 1) : text[i] = "\n" /\ text[i + 1] = "\n" }
    IN  IF cuts = {} THEN << SubSeq(text, from, Len(text)) >>
        ELSE LET i == CHOOSE c \in cuts : \A d \in cuts : c <= d
             IN  << SubSeq(text, from, i - 1) >> \o SplitParagraphs(text, i + 2)

\* The primary method on a page without glyphs: the whole page as one
\* block, then one block per paragraph (i counts from 0).
ParagraphBlocks(page, page_num) ==
    LET text_content == JoinParagraphs(page.paragraphs)
        paragraphs   == SplitParagraphs(text_content, 1)
        block(i) ==
            LET para == paragraphs[i + 1]
                is_text_box == HasBoxName(para)
                is_title == \/ (i = 0 /\ Len(para) < TitleLenLimit)
                            \/ (is_text_box /\ Len(para) < TitleLenLimit)
            IN  TextBlock(para, page_num,
                          <<0, i * FallbackStep, page.width, i * FallbackStep + 40>>,
                          Markers(is_title, is_text_box, is_title, is_text_box))
        blocks == [k \in DOMAIN paragraphs |-> block(k - 1)]
        keep   == [k \in DOMAIN paragraphs |-> Strip(paragraphs[k]) # <<>>]
    IN  IF text_content = <<>> THEN <<>>
        ELSE << TextBlock(text_content, page_num, <<0, 0, page.width, page.height>>,
                          Markers(FALSE, FALSE, FALSE, FALSE)) >>
                 \o SelectSeqIdx(blocks, keep)

\* The backup method, reached when the primary method raised: one block
\* per non-blank paragraph, y_offset growing by BackupStep.
BackupBlocks(page, page_num) ==
    LET text  == JoinParagraphs(page.paragraphs)
        all   == SplitParagraphs(text, 1)
        keep  == [k \in DOMAIN all |-> Strip(all[k]) # <<>>]
        paragraphs == SelectSeqIdx(all, keep)
        block(k) ==
            LET para == paragraphs[k]
                y_offset == (k - 1) * BackupStep
                is_text_box == HasBoxName(para)
                is_title == Len(para) < TitleLenLimit /\ y_offset < 100
            IN  TextBlock(para, page_num,
                          <<50, y_offset, page.width - 50, y_offset + 20>>,
                          Markers(is_title, is_text_box, is_title, is_text_box))
    IN  IF text = <<>> THEN <<>> ELSE [k \in DOMAIN paragraphs |-> block(k)]

PageBlocks(page, page_num) ==
    IF ~page.sortable THEN BackupBlocks(page, page_num)
    ELSE IF page.chars = <<>> THEN ParagraphBlocks(page, page_num)
    ELSE CharBlocks(page, page_num)

\* The structure returned when the extraction failed as a whole.
EmptyMeta ==
    [pages |-> <<>>, text_blocks |-> <<>>,
     global_margins |-> [left |-> 0, top |-> 0, right |-> 0, bottom |-> 0]]

extract_pdf_metadata(file) ==
    IF ~file.readable \/ file.pages = <<>> THEN EmptyMeta
    ELSE LET page_blocks == [n \in DOMAIN file.pages |-> PageBlocks(file.pages[n], n)]
         IN  [pages |-> [n \in DOMAIN file.pages |->
                            [page_number |-> n,
                             size |-> <<file.pages[n].width, file.pages[n].height>>,
                             text_blocks |-> SecondaryPass(page_blocks[n])]],
              text_blocks |-> SecondaryPass(Concat(page_blocks)),
              global_margins |-> [left |-> 0, top |-> 0, right |-> 0, bottom |-> 0]]

(***************************************************************************)
(* parse_pdf: one paragraph with one run per text block.                   *)
(***************************************************************************)
BlockPara(block) ==
    [text |-> block.text,
     style |-> Absent,
     runs |-> << [text |-> block.text, bold |-> block.format_markers.is_title,
                  italic |-> FALSE, size |-> 0, translated_text |-> Absent] >>,
     format_markers |-> block.format_markers,
     page |-> block.page,
     bbox |-> block.bbox,
     translated_text |-> Absent]

parse_pdf(file) ==
    LET pdf_meta == extract_pdf_metadata(file)
    IN  [origin |-> "pdf",
         keys |-> {},
         source_lang |-> "none", target_lang |-> "none", percent |-> 0,
         pages |-> pdf_meta.pages,
         paragraphs |-> [k \in DOMAIN pdf_meta.text_blocks |->
                            BlockPara(pdf_meta.text_blocks[k])],
         tables |-> <<>>]

(***************************************************************************)
(* The translator callback: a function of the text, chosen by the caller.  *)
(* Besides returning, a call may raise.                                    *)
(***************************************************************************)
TranslatorKinds == {"same", "double", "half", "empty"}

Apply(kind, text) ==
    CASE kind = "same"   -> text
      [] kind = "double" -> text \o text
      [] kind = "half"   -> SubSeq(text, 1, Len(text) \div 2)
      [] kind = "empty"  -> <<>>

(***************************************************************************)
(* translate_document_content: the run redistribution of one paragraph.    *)
(***************************************************************************)
\* The loop over para['runs'] from run k on, current_position being pos.
\* "run == para['runs'][-1]" compares the dicts.
RECURSIVE RedistributeFrom(_, _, _, _, _)
RedistributeFrom(runs, k, pos, original_text, translated_text) ==
    IF k > Len(runs) THEN runs
    ELSE LET run == runs[k]
             translated_length ==
                 IF Len(original_text) > 0
                 THEN PyIntMulDiv(Len(translated_text), Len(run.text),
                                  Len(original_text))
                 ELSE 0
             end_position == Min(pos + translated_length, Len(translated_text))
             run1  == [run EXCEPT !.translated_text =
                                      Slice(translated_text, pos, end_position)]
             runs1 == [runs EXCEPT ![k] = run1]
             run2  == IF run1 = runs1[Len(runs1)] /\ end_position < Len(translated_text)
                      THEN [run1 EXCEPT !.translated_text =
                                @ \o Slice(translated_text, end_position,
                                           Len(translated_text))]
                      ELSE run1
         IN  RedistributeFrom([runs EXCEPT ![k] = run2], k + 1, end_position,
                              original_text, translated_text)

\* A try body that puts the translation in place of the original text.
ParagraphTranslated_in_place(para, translated_text) ==
    [para EXCEPT !.text = translated_text,
                 !.translated_text = translated_text,
                 !.runs = IF Len(para.runs) > 1
                          THEN RedistributeFrom(para.runs, 1, 0, para.text,
                                                translated_text)
                          ELSE para.runs]

\* The try body for one paragraph, the translator having returned.
ParagraphTranslated(para, translated_text) ==
    [para EXCEPT !.translated_text = translated_text,
                 !.runs = IF Len(para.runs) > 1
                          THEN RedistributeFrom(para.runs, 1, 0, para.text,
                                                translated_text)
                          ELSE para.runs]

\* A handler that only logs.
ParagraphOnError_log_only(para) == para

\* The except handler for one paragraph: keep the original on error.
ParagraphOnError(para) == [para EXCEPT !.translated_text = para.text]

\* table.get('cells', []).
TableCells(table) == IF table.has_cells THEN table.cells ELSE <<>>

\* The try body for one table: the cells with a non-blank text are
\* translated in order; the call for cell fail_at (0: none) raises, which
\* ends the table.
TableTranslated(table, kind, fail_at) ==
    IF ~table.has_cells THEN table
    ELSE [table EXCEPT !.cells =
             [c \in DOMAIN table.cells |->
                 IF Strip(table.cells[c].text) # <<>> /\ (fail_at = 0 \/ c < fail_at)
                 THEN [table.cells[c] EXCEPT
                          !.translated_text = Apply(kind, table.cells[c].text)]
                 ELSE table.cells[c]]]

\* The translator calls that try body makes, in order.
TableCalls(table, t, fail_at) ==
    LET cells == TableCells(table)
        keep  == [c \in DOMAIN cells |->
                     Strip(cells[c].text) # <<>> /\ (fail_at = 0 \/ c <= fail_at)]
        calls == [c \in DOMAIN cells |->
                     [kind |-> "cell", unit |-> <<t, c>>, text |-> cells[c].text,
                      raised |-> c = fail_at]]
    IN  SelectSeqIdx(calls, keep)

(***************************************************************************)
(* Inputs: .docx files.                                                    *)
(***************************************************************************)
MaxParas == 2

MaxFailures == 2

T_Normal == <<"N", "o", "r", "m", "a", "l">>

T_Heading1 == <<"H", "e", "a", "d", "i", "n", "g", " ", "1">>

T_TableGrid == <<"T", "a", "b", "l", "e", " ", "G", "r", "i", "d">>

DocxRun(text, bold) == [text |-> text, bold |-> bold, italic |-> FALSE, size |-> 12]

DocxPara(text, style, alignment, runs) ==
    [text |-> text, style |-> style, alignment |-> alignment, runs |-> runs]

\* One run; two runs of the same text and attributes; three runs, the
\* middle one blank; a blank paragraph; a centered heading; a paragraph
\* whose style cannot be read.
DocxParaKinds ==
    { DocxPara(<<"a", "b">>, T_Normal, 0, <<DocxRun(<<"a", "b">>, FALSE)>>),
      DocxPara(<<"a", "b", "a", "b">>, T_Normal, 0,
               <<DocxRun(<<"a", "b">>, FALSE), DocxRun(<<"a", "b">>, FALSE)>>),
      DocxPara(<<"a", "b", "c", " ", "d", "e">>, T_Normal, 0,
               <<DocxRun(<<"a", "b", "c">>, TRUE), DocxRun(<<" ">>, FALSE),
                 DocxRun(<<"d", "e">>, FALSE)>>),
      DocxPara(<<" ", " ">>, T_Normal, 0, <<DocxRun(<<" ", " ">>, FALSE)>>),
      DocxPara(T_Chapter, T_Heading1, AlignCenter, <<DocxRun(T_Chapter, TRUE)>>),
      DocxPara(<<"x">>, Absent, 0, <<DocxRun(<<"x">>, FALSE)>>) }

DocxCell(paragraphs) == [paragraphs |-> paragraphs, style |-> T_Normal]

\* A 1 x 3 table: a cell with text, an empty cell, a cell with text.
DocxTable ==
    [style |-> T_TableGrid,
     rows |-> << << DocxCell(<< <<"a", "b">> >>), DocxCell(<< <<>> >>),
                    DocxCell(<< <<"c">>, <<"d">> >>) >> >>]

DocxFile(paragraphs, tables) ==
    [kind |-> "docx", readable |-> TRUE, paragraphs |-> paragraphs,
     tables |-> tables]

DocxFiles ==
    { DocxFile(ps, ts) :
        ps \in UNION { [1..k -> DocxParaKinds] : k \in 0..MaxParas },
        ts \in { <<>>, <<DocxTable>> } }

(***************************************************************************)
(* Inputs: .pdf files.                                                     *)
(***************************************************************************)
PageWidth == 612

PageHeight == 792

GlyphWidth == 10

\* The glyphs of a line of text set from x on, its top at y.
GlyphLine(text, x, y) ==
    [i \in DOMAIN text |->
        [text |-> text[i], x0 |-> x + GlyphWidth * (i - 1), y0 |-> y,
         x1 |-> x + GlyphWidth * i, bottom |-> y + GlyphWidth]]

PdfPage(chars, sortable, paragraphs) ==
    [width |-> PageWidth, height |-> PageHeight, chars |-> chars,
     sortable |-> sortable, paragraphs |-> paragraphs]

PdfFile(readable, pages) == [kind |-> "pdf", readable |-> readable, pages |-> pages]

\* x of a line of the given text centred on the page.
CentredX(text) == (PageWidth - GlyphWidth * Len(text)) \div 2

\* Page 1 of the briefing: the centred title 'Mission Briefing' at y = 50
\* and the callout 'Biograph unit' at (x, y).
BriefingPdf(x, y) ==
    PdfFile(TRUE, << PdfPage(GlyphLine(BiographUnit, x, y)
                                 \o GlyphLine(MissionBriefing, CentredX(MissionBriefing), 50),
                             TRUE, <<>>) >>)

\* The callout above or below the title, at the left margin or centred.
BriefingPdfs ==
    { BriefingPdf(x, y) : x \in {40, CentredX(BiographUnit)}, y \in {20, 80} }

\* A file that does not open; a page without text; a page without glyphs
\* whose text is read as paragraphs; a page whose glyphs cannot be ordered;
\* two pages of plain lines.
OtherPdfs ==
    { PdfFile(FALSE, <<>>),
      PdfFile(TRUE, << PdfPage(<<>>, TRUE, <<>>) >>),
      PdfFile(TRUE, << PdfPage(<<>>, TRUE, <<MissionBriefing, <<" ">>, PlainText>>) >>),
      PdfFile(TRUE, << PdfPage(GlyphLine(PlainText, 40, 20), FALSE,
                               <<PlainText, BiographUnit>>) >>),
      PdfFile(TRUE, << PdfPage(GlyphLine(PlainText, 40, 20)
                                   \o GlyphLine(WarningHot, 40, 23), TRUE, <<>>),
                       PdfPage(GlyphLine(SeeProtocol, 40, 400), TRUE, <<>>) >>) }

PdfFiles == BriefingPdfs \cup OtherPdfs

\* A model built by a caller of translate_document_content, its table in
\* the shape of a PDF page table: a list of 'cells'.
ModelCell(text, row, col) ==
    [text |-> text, paragraphs |-> <<>>, style |-> Absent, row |-> row,
     col |-> col, translated_text |-> Absent]

CallerModel ==
    [origin |-> "caller", keys |-> {},
     source_lang |-> "none", target_lang |-> "none", percent |-> 0,
     pages |-> <<>>,
     paragraphs |-> <<>>,
     tables |-> << [has_cells |-> TRUE, style |-> Absent, rows |-> <<>>,
                    cells |-> << ModelCell(<<"a", "b">>, 0, 0),
                                 ModelCell(<<" ">>, 0, 1),
                                 ModelCell(<<"c", "d">>, 1, 0) >>] >>]

(***************************************************************************)
(* State.                                                                  *)
(***************************************************************************)
VARIABLES
    \* layout_compensation: its arguments and its result.
    original_text, translated_text, compensation,
    \* the secondary pass: the block list, how often the pass has run, and
    \* the list as the first run left it.
    text_blocks, passes, first_pass,
    \* the character clustering of a page: the lines of glyphs found.
    lines,
    \* a job: where it is, and the arguments of translate_document.
    pc, input_file, output_pdf, direct_pdf, percent_in, writable, translator,
    \* a job: the clamped percentage, the extracted metadata and model, the
    \* loop indices of translate_document_content, the translator calls made
    \* and how many raised, the file written and the value returned.
    percent_to_translate, pdf_meta, doc_data, total_paragraphs, idx, tidx,
    calls, failures, output, result,
    \* translate_pdf called with PDF output: the output path, the argument
    \* output_pdf, what the converter of docx2pdf does, and the paths at
    \* which a file exists.
    output_path, pdf_requested, converter, files,
    \* the window: the mode, whether a translator is configured, the
    \* attachment, the flag is_sending, the queue between the threads, the
    \* background threads started, whether the main thread is inside
    \* check_queue, and the messages the chat area shows about a job or
    \* in place of one (the hints and the echo of the input are left out,
    \* as are the status line, the progress bar and the state of the send
    \* button, which no handler reads).
    translation_mode, has_translation, attachment_path, is_sending,
    message_queue, workers, polling, displayed

compVars == <<original_text, translated_text, compensation>>

passVars == <<text_blocks, passes, first_pass, lines>>

\* The arguments of a call of translate_document and the state of the
\* output location: they do not change during a job.
argVars == <<input_file, output_pdf, direct_pdf, percent_in, writable, translator,
             output_path, pdf_requested, converter>>

jobVars == <<pc, argVars, percent_to_translate, pdf_meta, doc_data,
             total_paragraphs, idx, tidx, calls, failures, output, result, files>>

guiVars == <<translation_mode, has_translation, attachment_path, is_sending,
             message_queue, workers, polling, displayed>>

vars == <<compVars, passVars, jobVars, guiVars>>

\* The value of a variable that holds no record yet.
NoValue == [none |-> TRUE]

NoModel == [origin |-> "none", keys |-> {}, source_lang |-> "none",
            target_lang |-> "none", percent |-> 0, pages |-> <<>>,
            paragraphs |-> <<>>, tables |-> <<>>]

IdleGui ==
    /\ translation_mode = FALSE
    /\ has_translation = FALSE
    /\ attachment_path = "none"
    /\ is_sending = FALSE
    /\ message_queue = <<>>
    /\ workers = <<>>
    /\ polling = FALSE
    /\ displayed = {}

IdleComp ==
    /\ original_text = <<>>
    /\ translated_text = <<>>
    /\ compensation = NoValue

IdlePass ==
    /\ text_blocks = <<>>
    /\ passes = 0
    /\ first_pass = <<>>
    /\ lines = <<>>

IdleConv ==
    /\ output_path = <<>>
    /\ pdf_requested = FALSE
    /\ converter = "unavailable"
    /\ files = {}

IdleJob ==
    /\ IdleConv
    /\ pc = "idle"
    /\ input_file = NoValue
    /\ output_pdf = FALSE
    /\ direct_pdf = FALSE
    /\ percent_in = 100
    /\ writable = TRUE
    /\ translator = "same"
    /\ percent_to_translate = 100
    /\ pdf_meta = NoValue
    /\ doc_data = NoModel
    /\ total_paragraphs = 0
    /\ idx = 0
    /\ tidx = 0
    /\ calls = <<>>
    /\ failures = 0
    /\ output = NoValue
    /\ result = "none"

(***************************************************************************)
(* layout_compensation applied to a pair of texts.                         *)
(***************************************************************************)
MaxCompLen == 12

LayoutCompensation ==
    /\ compensation = NoValue
    /\ compensation' = layout_compensation(original_text, translated_text)
    /\ UNCHANGED <<guiVars, original_text, translated_text, passVars, jobVars>>

InitComp ==
    /\ IdleGui
    /\ original_text \in { Rep("x", n) : n \in 0..MaxCompLen }
    /\ translated_text \in { Rep("y", n) : n \in 0..MaxCompLen }
    /\ compensation = NoValue
    /\ IdlePass
    /\ IdleJob

NextComp == LayoutCompensation

SpecComp == InitComp /\ [][NextComp]_vars

(***************************************************************************)
(* The secondary pass applied to a block list, again and again.            *)
(***************************************************************************)
MaxBlocks == 2

MaxPasses == 3

\* Texts that meet each rule of the pass and none: a short box-and-title
\* text, a box text, a title text, a box text by its upper case, a title
\* keyword whose text is short only once stripped, a long text with a
\* title keyword, and a plain text.
PassTexts ==
    { MissionPhase2, BiographUnit, MissionBriefing, SeeProtocol,
      T_Chapter \o Rep(" ", BoxKeywordLimit),
      T_Mission \o Rep("x", BoxKeywordLimit),
      PlainText }

\* Blocks as the per-page pass leaves them: has_border is is_text_box.
PassBlocks ==
    { TextBlock(t, 1, <<0, 0, 0, 0>>, Markers(ti, tb, FALSE, tb)) :
        t \in PassTexts, ti \in BOOLEAN, tb \in BOOLEAN }

ApplySecondaryPass ==
    /\ passes < MaxPasses
    /\ text_blocks' = SecondaryPass(text_blocks)
    /\ passes' = passes + 1
    /\ first_pass' = IF passes = 0 THEN text_blocks' ELSE first_pass
    /\ UNCHANGED <<guiVars, compVars, jobVars, lines>>

InitPass ==
    /\ IdleGui
    /\ text_blocks \in UNION { [1..k -> PassBlocks] : k \in 0..MaxBlocks }
    /\ passes = 0
    /\ first_pass = <<>>
    /\ lines = <<>>
    /\ IdleComp
    /\ IdleJob

NextPass == ApplySecondaryPass

SpecPass == InitPass /\ [][NextPass]_vars

(***************************************************************************)
(* translate_document_content, one action per loop iteration.              *)
(***************************************************************************)
SourceLang == "zh"

TargetLang == "en"

\* The copy of the model and its language keys.
BeginTranslate ==
    /\ pc = "call_content"
    /\ doc_data' = [doc_data EXCEPT !.keys = @ \cup {"source_lang", "target_lang"},
                                    !.source_lang = SourceLang,
                                    !.target_lang = TargetLang]
    /\ idx' = 1
    /\ tidx' = 1
    /\ pc' = "translate"
    /\ UNCHANGED <<guiVars, compVars, passVars, argVars, files, percent_to_translate, pdf_meta,
                   total_paragraphs, calls, failures, output, result>>

\* One iteration of the loop over the paragraphs: the translator returns
\* or raises.
TranslateParagraph ==
    /\ pc = "translate"
    /\ idx <= Len(doc_data.paragraphs)
    /\ \E raises \in BOOLEAN :
        /\ raises => failures < MaxFailures
        /\ LET para == doc_data.paragraphs[idx]
           IN  /\ doc_data' = [doc_data EXCEPT !.paragraphs[idx] =
                                 IF raises THEN ParagraphOnError(para)
                                 ELSE ParagraphTranslated(para, Apply(translator, para.text))]
               /\ calls' = Append(calls, [kind |-> "para", unit |-> <<0, idx>>,
                                          text |-> para.text, raised |-> raises])
        /\ failures' = IF raises THEN failures + 1 ELSE failures
    /\ idx' = idx + 1
    /\ UNCHANGED <<guiVars, compVars, passVars, pc, argVars, files, percent_to_translate,
                   pdf_meta, total_paragraphs, tidx, output, result>>

\* One iteration of the loop over the tables, once the paragraphs are done.
TranslateTable ==
    /\ pc = "translate"
    /\ idx > Len(doc_data.paragraphs)
    /\ tidx <= Len(doc_data.tables)
    /\ LET table == doc_data.tables[tidx]
           cells == TableCells(table)
       IN  \E fail_at \in 0..Len(cells) :
            /\ fail_at > 0 => failures < MaxFailures /\ Strip(cells[fail_at].text) # <<>>
            /\ doc_data' = [doc_data EXCEPT !.tables[tidx] =
                               TableTranslated(table, translator, fail_at)]
            /\ calls' = calls \o TableCalls(table, tidx, fail_at)
            /\ failures' = IF fail_at > 0 THEN failures + 1 ELSE failures
    /\ tidx' = tidx + 1
    /\ UNCHANGED <<guiVars, compVars, passVars, pc, argVars, files, percent_to_translate,
                   pdf_meta, total_paragraphs, idx, output, result>>

ReturnTranslated ==
    /\ pc = "translate"
    /\ idx > Len(doc_data.paragraphs)
    /\ tidx > Len(doc_data.tables)
    /\ pc' = "translated"
    /\ UNCHANGED <<guiVars, compVars, passVars, argVars, files, percent_to_translate, pdf_meta,
                   doc_data, total_paragraphs, idx, tidx, calls, failures, output,
                   result>>

\* The models translate_document_content is called on: those of the
\* extractors, and one built by a caller.
ContentModels ==
    { parse_docx(f) : f \in DocxFiles } \cup { parse_pdf(f) : f \in PdfFiles }
        \cup { CallerModel }

InitContent ==
    /\ IdleGui
    /\ IdleComp
    /\ IdlePass
    /\ IdleConv
    /\ pc = "call_content"
    /\ doc_data \in ContentModels
    /\ translator \in TranslatorKinds
    /\ input_file = NoValue
    /\ output_pdf = FALSE
    /\ direct_pdf = FALSE
    /\ percent_in = 100
    /\ writable = TRUE
    /\ percent_to_translate = 100
    /\ pdf_meta = NoValue
    /\ total_paragraphs = Len(doc_data.paragraphs)
    /\ idx = 0
    /\ tidx = 0
    /\ calls = <<>>
    /\ failures = 0
    /\ output = NoValue
    /\ result = "none"

NextContent ==
    \/ BeginTranslate
    \/ TranslateParagraph
    \/ TranslateTable
    \/ ReturnTranslated

SpecContent == InitContent /\ [][NextContent]_vars

(***************************************************************************)
(* The rebuilders.  A written document is its header (the synthesized      *)
(* title, the languages and the percentage its info lines or its note      *)
(* state; "none" and 0 when not stated) and its body items in order.       *)
(***************************************************************************)
Item(kind, text, page) == [kind |-> kind, text |-> text, page |-> page]

\* WordRebuilder.rebuild_document: the element written for a unit with
\* this text: a heading, the red one-cell table, the 'Table Grid' one-cell
\* table (black), a centered paragraph or a paragraph.
RenderKind(markers, text) ==
    IF markers.is_title THEN "heading"
    ELSE IF markers.is_text_box \/ markers.has_border
         THEN IF markers.border_color = "red" \/ HasBoxName(text)
              THEN "redbox" ELSE "box"
         ELSE IF markers.is_centered THEN "centered" ELSE "para"

\* A flow that draws the red box for the border colour alone.
DirectRenderKind_by_colour(markers, text) ==
    IF markers.is_title THEN "heading"
    ELSE IF markers.is_text_box \/ markers.has_border
         THEN IF markers.border_color = "red" THEN "redbox" ELSE "box"
         ELSE IF markers.is_centered THEN "centered" ELSE "para"

\* generate_pdf_direct: the flowable appended for a unit with this text:
\* a paragraph in heading_style, a one-cell Table with a red BOX, one with
\* a black BOX, a paragraph aligned TA_CENTER or one aligned TA_LEFT.
DirectRenderKind(markers, text) ==
    IF markers.is_title THEN "heading"
    ELSE IF markers.is_text_box \/ markers.has_border
         THEN IF \/ markers.border_color = "red"
                 \/ Contains(text, T_Mission)
                 \/ Contains(text, T_Biograph)
              THEN "redbox" ELSE "box"
         ELSE IF markers.is_centered THEN "centered" ELSE "para"

\* rebuild_document: the paragraph written for one unit.  It gets the
\* unit's style (a paragraph in a heading style is what add_heading
\* writes) and is centered for is_centered; no other marker is read.
RebuiltParagraph(para) ==
    LET keep == [k \in DOMAIN para.runs |->
                    /\ para.runs[k].translated_text # Absent
                    /\ Strip(para.runs[k].translated_text) # <<>>]
        runs == SelectSeqIdx(para.runs, keep)
        text == IF para.runs # <<>>
                THEN Concat([k \in DOMAIN runs |-> runs[k].translated_text])
                ELSE IF para.translated_text # Absent THEN para.translated_text
                ELSE <<>>
        kind == IF /\ para.style # Absent
                   /\ \/ StartsWith(Lower(para.style), T_heading)
                      \/ StartsWith(Lower(para.style), T_title)
                THEN "heading"
                ELSE IF para.format_markers.is_centered THEN "centered"
                ELSE "para"
    IN  Item(kind, text, 0)

\* rebuild_document: the table written for one table of the model; a cell
\* is filled from its 'translated_text' only.
RebuiltTable(table) ==
    LET cells == Concat(table.rows)
        texts == [c \in DOMAIN cells |->
                     IF cells[c].translated_text # Absent
                     THEN cells[c].translated_text ELSE <<>>]
    IN  Item("table", Concat(texts), 0)

\* rebuild_document with the input as template: the template's paragraphs
\* are removed, its tables stay.
rebuild_document(translated_data, template) ==
    LET kept == [t \in DOMAIN template.tables |->
                    Item("table",
                         Concat([c \in DOMAIN Concat(template.tables[t].rows) |->
                                    JoinLines(Concat(template.tables[t].rows)[c].paragraphs)]),
                         0)]
        has_rows == [t \in DOMAIN translated_data.tables |->
                        translated_data.tables[t].rows # <<>>]
        tables == SelectSeqIdx(translated_data.tables, has_rows)
    IN  [format |-> "docx", title |-> FALSE, source_lang |-> "none",
         target_lang |-> "none", percent |-> 0,
         items |-> kept
                   \o [k \in DOMAIN translated_data.paragraphs |->
                          RebuiltParagraph(translated_data.paragraphs[k])]
                   \o [t \in DOMAIN tables |-> RebuiltTable(tables[t])]]

\* WordRebuilder.rebuild_document.
WordRebuilder_rebuild_document(meta, translated_data) ==
    LET blocks == meta.text_blocks
        keep_b == [k \in DOMAIN blocks |-> Strip(blocks[k].text) # <<>>]
        shown  == SelectSeqIdx(blocks, keep_b)
        paras  == translated_data.paragraphs
        keep_p == [k \in DOMAIN paras |->
                      paras[k].translated_text \notin {Absent, <<>>}]
        units  == SelectSeqIdx(paras, keep_p)
    IN  [format |-> "docx", title |-> TRUE,
         source_lang |-> IF "source_lang" \in translated_data.keys
                         THEN translated_data.source_lang ELSE "none",
         target_lang |-> IF "target_lang" \in translated_data.keys
                         THEN translated_data.target_lang ELSE "none",
         percent |-> IF "percent" \in translated_data.keys
                     THEN translated_data.percent ELSE 0,
         items |-> IF paras = <<>> /\ blocks # <<>>
                   THEN [k \in DOMAIN shown |->
                            Item(RenderKind(shown[k].format_markers, shown[k].text),
                                 shown[k].text, shown[k].page)]
                   ELSE [k \in DOMAIN units |->
                            Item(RenderKind(units[k].format_markers,
                                            units[k].translated_text),
                                 units[k].translated_text, units[k].page)]]

\* generate_pdf_direct: the flow of the units from unit k on, the last
\* page marker written being current_page (0: none; a unit of a .docx has
\* no 'page').
RECURSIVE DirectFlow(_, _, _)
DirectFlow(units, k, current_page) ==
    IF k > Len(units) THEN <<>>
    ELSE LET para == units[k]
             mark == para.page # 0 /\ para.page # current_page
             page == IF mark THEN para.page ELSE current_page
         IN  (IF mark THEN << Item("pagemark", <<>>, page) >> ELSE <<>>)
                 \o << Item(DirectRenderKind(para.format_markers, para.translated_text),
                            para.translated_text, page) >>
                 \o DirectFlow(units, k + 1, page)

\* generate_pdf_direct: the pagesize handed to SimpleDocTemplate for a
\* first page of this size.  The default is kept when a dimension is 0;
\* with page_width > page_height the two are exchanged.
DirectPageSize(size) ==
    LET given       == size[1] # 0 /\ size[2] # 0
        page_width  == IF given THEN size[1] ELSE PageWidth
        page_height == IF given THEN size[2] ELSE PageHeight
    IN  IF page_width > page_height THEN <<page_height, page_width>>
        ELSE <<page_width, page_height>>

\* generate_pdf_direct, its page geometry read; "failed" when reading
\* pdf_meta['pages'][0] raises.
generate_pdf_direct(translated_data, meta) ==
    LET paras  == translated_data.paragraphs
        keep_p == [k \in DOMAIN paras |->
                      paras[k].translated_text \notin {Absent, <<>>}]
        units  == SelectSeqIdx(paras, keep_p)
    IN  IF meta.pages = <<>> THEN [format |-> "failed"]
        ELSE [format |-> "pdf", title |-> TRUE,
              pagesize |-> DirectPageSize(meta.pages[1].size),
              source_lang |-> IF "source_lang" \in translated_data.keys
                              THEN translated_data.source_lang ELSE "none",
              target_lang |-> IF "target_lang" \in translated_data.keys
                              THEN translated_data.target_lang ELSE "none",
              percent |-> IF "percent" \in translated_data.keys
                              /\ translated_data.percent < 100
                          THEN translated_data.percent ELSE 0,
              items |-> DirectFlow(units, 1, 0)]

\* The metadata translate_docx_to_pdf_direct passes for a .docx.
SimpleMeta ==
    [pages |-> << [page_number |-> 1, size |-> <<PageWidth, PageHeight>>,
                   text_blocks |-> <<>>] >>,
     text_blocks |-> <<>>,
     global_margins |-> [left |-> 36, top |-> 36, right |-> 36, bottom |-> 36]]

(***************************************************************************)
(* A job: one call of translate_document.                                  *)
(***************************************************************************)
\* A clamp that lets every value through.
ClampPercent_none(percent) == percent

\* max(1, min(100, percent_to_translate)).
ClampPercent(percent) == Max(1, Min(100, percent))

\* The function translate_document hands the job to.
Route ==
    LET to_pdf == direct_pdf /\ output_pdf
    IN  IF input_file.kind = "docx"
        THEN IF to_pdf THEN "translate_docx_to_pdf_direct" ELSE "translate_docx"
        ELSE IF input_file.kind = "pdf"
        THEN IF to_pdf THEN "translate_pdf_to_pdf_direct" ELSE "translate_pdf"
        ELSE "unsupported"

\* The end of a job: the value returned.
Return(value) ==
    /\ result' = value
    /\ pc' = "done"

\* translate_document: the clamp, then the dispatch on the extension.
TranslateDocument ==
    /\ pc = "call"
    /\ percent_to_translate' = ClampPercent(percent_in)
    /\ IF Route = "unsupported"
       THEN Return("False")
       ELSE pc' = "extract" /\ result' = result
    /\ UNCHANGED <<guiVars, compVars, passVars, argVars, files, pdf_meta, doc_data,
                   total_paragraphs, idx, tidx, calls, failures, output>>

\* Step 1 of a route: the extractor.  parse_docx raises on a file it
\* cannot open, which ends the job; extract_pdf_metadata does not raise.
Extract ==
    /\ pc = "extract"
    /\ IF input_file.kind = "docx"
       THEN IF input_file.readable
            THEN /\ doc_data' = parse_docx(input_file)
                 /\ pc' = "truncate"
                 /\ UNCHANGED <<pdf_meta, result>>
            ELSE /\ Return("False")
                 /\ UNCHANGED <<pdf_meta, doc_data>>
       ELSE /\ pdf_meta' = extract_pdf_metadata(input_file)
            /\ doc_data' = parse_pdf(input_file)
            /\ pc' = "truncate"
            /\ UNCHANGED result
    /\ UNCHANGED <<guiVars, compVars, passVars, argVars, files, percent_to_translate,
                   total_paragraphs, idx, tidx, calls, failures, output>>

\* The percentage limit of a route:
\* paragraphs[:int(total_paragraphs * (percent_to_translate / 100))].
Truncate ==
    /\ pc = "truncate"
    /\ total_paragraphs' = Len(doc_data.paragraphs)
    /\ doc_data' =
          IF percent_to_translate < 100
          THEN [doc_data EXCEPT !.paragraphs =
                   Slice(@, 0, PyIntMulDiv(Len(doc_data.paragraphs),
                                           percent_to_translate, 100))]
          ELSE doc_data
    /\ pc' = "call_content"
    /\ UNCHANGED <<guiVars, compVars, passVars, argVars, files, percent_to_translate, pdf_meta,
                   idx, tidx, calls, failures, output, result>>

\* The keys the routes other than translate_docx set on the translated
\* model.
WithJobKeys(translated_data) ==
    [translated_data EXCEPT !.keys = @ \cup {"percent", "source_lang", "target_lang"},
                            !.percent = percent_to_translate,
                            !.source_lang = SourceLang,
                            !.target_lang = TargetLang]

\* translate_docx, step 3: rebuild_document on the input as template.  A
\* failed save returns None and the job False; with a percentage under
\* 100 the note is added next.
RebuildDocx ==
    /\ pc = "translated"
    /\ input_file # NoValue
    /\ Route = "translate_docx"
    /\ IF writable
       THEN /\ output' = rebuild_document(doc_data, input_file)
            /\ files' = files \cup {output_path}
            /\ IF percent_to_translate < 100
               THEN pc' = "note" /\ result' = result
               ELSE Return("True")
       ELSE /\ Return("False")
            /\ UNCHANGED <<output, files>>
    /\ UNCHANGED <<guiVars, compVars, passVars, argVars, percent_to_translate, pdf_meta,
                   doc_data, total_paragraphs, idx, tidx, calls, failures>>

\* translate_docx: the note is written into the saved file; when opening
\* or saving it raises, a warning is logged.  The job returns True either
\* way.
AddNote ==
    /\ pc = "note"
    /\ \E saved \in BOOLEAN :
        output' = IF saved
                  THEN [output EXCEPT !.percent = percent_to_translate,
                                      !.source_lang = SourceLang,
                                      !.target_lang = TargetLang]
                  ELSE output
    /\ Return("True")
    /\ UNCHANGED <<guiVars, compVars, passVars, argVars, files, percent_to_translate, pdf_meta,
                   doc_data, total_paragraphs, idx, tidx, calls, failures>>

\* str.endswith(suffix).
EndsWith(text, suffix) ==
    /\ Len(text) >= Len(suffix)
    /\ SubSeq(text, Len(text) - Len(suffix) + 1, Len(text)) = suffix

\* text.rsplit('.', 1)[0]: the part before the last dot, the whole text
\* when it has none.
RSplitDot(text) ==
    LET dots == { i \in 1..Len(text) : text[i] = "." }
    IN  IF dots = {} THEN text
        ELSE SubSeq(text, 1, (CHOOSE i \in dots : \A j \in dots : j <= i) - 1)

T_pdf == <<".", "p", "d", "f">>

T_docx == <<".", "d", "o", "c", "x">>

\* translate_pdf: where the WordRebuilder writes the editable document.
docx_output_path ==
    IF pdf_requested /\ EndsWith(Lower(output_path), T_pdf)
    THEN RSplitDot(output_path) \o T_docx
    ELSE output_path

\* translate_pdf: where the converter is told to write the PDF.
pdf_output_path ==
    IF EndsWith(Lower(output_path), T_pdf) THEN output_path
    ELSE output_path \o T_pdf

\* translate_pdf, step 3: the WordRebuilder writes docx_output_path; a
\* failed save raises, which the route turns into False.  With PDF
\* output asked for, step 4 follows.
RebuildWord ==
    /\ pc = "translated"
    /\ input_file # NoValue
    /\ Route = "translate_pdf"
    /\ doc_data' = WithJobKeys(doc_data)
    /\ IF writable
       THEN /\ output' = WordRebuilder_rebuild_document(pdf_meta, doc_data')
            /\ files' = files \cup {docx_output_path}
            /\ IF pdf_requested
               THEN pc' = "convert" /\ result' = result
               ELSE Return("True")
       ELSE /\ Return("False")
            /\ UNCHANGED <<output, files>>
    /\ UNCHANGED <<guiVars, compVars, passVars, argVars, percent_to_translate, pdf_meta,
                   total_paragraphs, idx, tidx, calls, failures>>

\* A step 4 whose failure handler reports the failure.
ConvertResult_reports_failure(conv, existing) ==
    IF conv = "unavailable" THEN [files |-> existing, value |-> "True"]
    ELSE IF conv = "raises" THEN [files |-> existing, value |-> "False"]
    ELSE LET converted == IF conv = "writes" THEN existing \cup {pdf_output_path}
                          ELSE existing
             exists    == pdf_output_path \in converted
         IN  [files |-> IF exists /\ docx_output_path # output_path
                        THEN converted \ {docx_output_path}
                        ELSE converted,
              value |-> IF exists THEN "True" ELSE "False"]

\* translate_pdf, step 4, run once the editable document is written (so
\* docx_result_path is not None): the files that exist afterwards and the
\* value returned.  Without docx2pdf, and when convert raises, the value
\* is that of the editable document; otherwise the editable document is
\* removed when the PDF exists and docx_output_path != output_path, and
\* the value is whether the PDF exists.
ConvertResult(conv, existing) ==
    IF conv \in {"unavailable", "raises"}
    THEN [files |-> existing, value |-> "True"]
    ELSE LET converted == IF conv = "writes" THEN existing \cup {pdf_output_path}
                          ELSE existing
             exists    == pdf_output_path \in converted
         IN  [files |-> IF exists /\ docx_output_path # output_path
                        THEN converted \ {docx_output_path}
                        ELSE converted,
              value |-> IF exists THEN "True" ELSE "False"]

ConvertToPdf ==
    /\ pc = "convert"
    /\ LET r == ConvertResult(converter, files)
       IN  /\ files' = r.files
           /\ Return(r.value)
    /\ UNCHANGED <<guiVars, compVars, passVars, argVars, percent_to_translate, pdf_meta,
                   doc_data, total_paragraphs, idx, tidx, calls, failures, output>>

\* The direct routes: generate_pdf_direct returns False when it raises.
GeneratePdfDirect ==
    /\ pc = "translated"
    /\ input_file # NoValue
    /\ Route \in {"translate_docx_to_pdf_direct", "translate_pdf_to_pdf_direct"}
    /\ doc_data' = WithJobKeys(doc_data)
    /\ LET meta == IF Route = "translate_docx_to_pdf_direct" THEN SimpleMeta
                   ELSE pdf_meta
           pdf  == generate_pdf_direct(doc_data', meta)
       IN  IF writable /\ pdf.format # "failed"
           THEN /\ output' = pdf
                /\ files' = files \cup {output_path}
                /\ Return("True")
           ELSE /\ Return("False")
                /\ UNCHANGED <<output, files>>
    /\ UNCHANGED <<guiVars, compVars, passVars, argVars, percent_to_translate, pdf_meta,
                   total_paragraphs, idx, tidx, calls, failures>>

\* The inputs of the jobs: .docx files of up to MaxParas paragraphs (one
\* run, three runs, a heading) with or without a table, a .docx that does
\* not open, the .pdf files, and a file of another type.
JobParaKinds ==
    { p \in DocxParaKinds : p.style # Absent /\ Len(p.runs) # 2 /\ Strip(p.text) # <<>> }

JobFiles ==
    { f \in DocxFiles : \A k \in DOMAIN f.paragraphs : f.paragraphs[k] \in JobParaKinds }
        \cup { [DocxFile(<<>>, <<>>) EXCEPT !.readable = FALSE] }
        \cup PdfFiles
        \cup { [kind |-> "txt", readable |-> TRUE, paragraphs |-> <<>>, tables |-> <<>>] }

\* The percentages asked for: below, at and above the range's ends, and
\* inside it.
PercentInputs == {0 - 5, 0, 1, 50, 99, 100, 150}

\* The output paths: the stem "o" with the extensions of the two formats.
OutStem == <<"o">>

JobTranslators == {"double", "empty"}

Init ==
    /\ IdleGui
    /\ IdleComp
    /\ IdlePass
    /\ pc = "call"
    /\ input_file \in JobFiles
    /\ output_pdf \in BOOLEAN
    /\ output_path = IF output_pdf THEN OutStem \o T_pdf ELSE OutStem \o T_docx
    /\ pdf_requested = FALSE
    /\ converter = "unavailable"
    /\ files = {}
    /\ direct_pdf \in BOOLEAN
    /\ percent_in \in PercentInputs
    /\ writable \in BOOLEAN
    /\ translator \in JobTranslators
    /\ percent_to_translate = 100
    /\ pdf_meta = NoValue
    /\ doc_data = NoModel
    /\ total_paragraphs = 0
    /\ idx = 0
    /\ tidx = 0
    /\ calls = <<>>
    /\ failures = 0
    /\ output = NoValue
    /\ result = "none"

Next ==
    \/ TranslateDocument
    \/ Extract
    \/ Truncate
    \/ BeginTranslate
    \/ TranslateParagraph
    \/ TranslateTable
    \/ ReturnTranslated
    \/ RebuildDocx
    \/ AddNote
    \/ RebuildWord
    \/ GeneratePdfDirect

Spec == Init /\ [][Next]_vars

(***************************************************************************)
(* translate_pdf called on its own, with and without PDF output: output     *)
(* paths with the extension .pdf in either case, with another extension    *)
(* and with none; a converter that is not installed, raises, returns       *)
(* without writing, or writes the PDF; a PDF left at the path by an        *)
(* earlier job or none.                                                    *)
(***************************************************************************)
OutputPaths ==
    { OutStem \o T_pdf, OutStem \o Upper(T_pdf), OutStem \o T_docx, OutStem }

Converters == {"unavailable", "raises", "nothing", "writes"}

InitPdf ==
    /\ IdleGui
    /\ IdleComp
    /\ IdlePass
    /\ pc = "extract"
    /\ input_file \in PdfFiles
    /\ output_path \in OutputPaths
    /\ output_pdf = EndsWith(Lower(output_path), T_pdf)
    /\ pdf_requested \in BOOLEAN
    /\ converter \in Converters
    /\ files \in {{}, {pdf_output_path}}
    /\ direct_pdf = FALSE
    /\ percent_in \in {50, 100}
    /\ writable \in BOOLEAN
    /\ translator = "double"
    /\ percent_to_translate = percent_in
    /\ pdf_meta = NoValue
    /\ doc_data = NoModel
    /\ total_paragraphs = 0
    /\ idx = 0
    /\ tidx = 0
    /\ calls = <<>>
    /\ failures = 0
    /\ output = NoValue
    /\ result = "none"

NextPdf ==
    \/ Extract
    \/ Truncate
    \/ BeginTranslate
    \/ TranslateParagraph
    \/ ReturnTranslated
    \/ RebuildWord
    \/ ConvertToPdf

SpecPdf == InitPdf /\ [][NextPdf]_vars

(***************************************************************************)
(* The three rebuilders called on a translated model of one unit that a    *)
(* caller built: every combination of the markers, with and without a      *)
(* border colour, texts with and without a box name; for the first page    *)
(* a portrait, a landscape and a square size, and one with no dimensions.  *)
(* rebuild_document gets an empty .docx as its template.                   *)
(***************************************************************************)
RenderMarkers ==
    { [Markers(t, b, c, h) EXCEPT !.border_color = colour] :
        t \in BOOLEAN, b \in BOOLEAN, c \in BOOLEAN, h \in BOOLEAN,
        colour \in {"none", "red", "black"} }

RenderTexts == {PlainText, MissionBriefing, BiographUnit}

RenderUnit(markers, text) ==
    [text |-> text, style |-> Absent, runs |-> <<>>, format_markers |-> markers,
     page |-> 1, translated_text |-> text]

RenderModels ==
    { [CallerModel EXCEPT !.paragraphs = << RenderUnit(m, t) >>, !.tables = <<>>] :
        m \in RenderMarkers, t \in RenderTexts }

PageSizes ==
    { <<PageWidth, PageHeight>>, <<PageHeight, PageWidth>>,
      <<PageWidth, PageWidth>>, <<0, 0>> }

InitRender ==
    /\ IdleGui
    /\ IdleComp
    /\ IdlePass
    /\ pc = "translated"
    /\ input_file \in { DocxFile(<<>>, <<>>), PdfFile(TRUE, <<>>) }
    /\ output_pdf \in BOOLEAN
    /\ output_path = IF output_pdf THEN OutStem \o T_pdf ELSE OutStem \o T_docx
    /\ pdf_requested = FALSE
    /\ converter = "unavailable"
    /\ files = {}
    /\ direct_pdf = output_pdf
    /\ percent_in = 100
    /\ writable = TRUE
    /\ translator = "same"
    /\ percent_to_translate = 100
    /\ pdf_meta \in { [SimpleMeta EXCEPT !.pages[1].size = size] : size \in PageSizes }
    /\ doc_data \in RenderModels
    /\ total_paragraphs = 1
    /\ idx = 2
    /\ tidx = 1
    /\ calls = <<>>
    /\ failures = 0
    /\ output = NoValue
    /\ result = "none"

NextRender ==
    \/ RebuildDocx
    \/ RebuildWord
    \/ GeneratePdfDirect

SpecRender == InitRender /\ [][NextRender]_vars

(***************************************************************************)
(* The character clustering of one page of up to MaxGlyphs glyphs, listed  *)
(* by the PDF from the bottom up.  A glyph is a letter at the left margin, *)
(* a letter at the middle of the page or a space at the left margin; its   *)
(* top is one of GlyphTops: just above the page (-1), then at distances of *)
(* 4, 5 and 6 from one another.                                            *)
(***************************************************************************)
MaxGlyphs == 4

GlyphTops == <<0 - 1, 3, 8, 14, 20, 26>>

GlyphKinds ==
    << [text |-> "a", x |-> 40],
       [text |-> "a", x |-> CentredX(<<"a">>)],
       [text |-> " ", x |-> 40] >>

CharAt(i) ==
    LET kind == GlyphKinds[((i - 1) % Len(GlyphKinds)) + 1]
        y    == GlyphTops[((i - 1) \div Len(GlyphKinds)) + 1]
    IN  GlyphLine(<<kind.text>>, kind.x, y)[1]

\* The lists of up to n glyph numbers in descending order.
RECURSIVE CharLists(_)
CharLists(n) ==
    IF n = 0 THEN { <<>> }
    ELSE LET shorter == CharLists(n - 1)
             count   == Len(GlyphKinds) * Len(GlyphTops)
         IN  shorter \cup
             UNION { { Append(s, i) :
                         i \in { j \in 1..count : s = <<>> \/ j < Last(s) } } :
                     s \in shorter }

CharPages ==
    { PdfFile(TRUE, << PdfPage([k \in DOMAIN s |-> CharAt(s[k])], TRUE, <<>>) >>) :
        s \in CharLists(MaxGlyphs) \ { <<>> } }

InitChars ==
    /\ IdleGui
    /\ IdleComp
    /\ IdlePass
    /\ IdleConv
    /\ pc = "cluster"
    /\ input_file \in CharPages
    /\ output_pdf = FALSE
    /\ direct_pdf = FALSE
    /\ percent_in = 100
    /\ writable = TRUE
    /\ translator = "same"
    /\ percent_to_translate = 100
    /\ pdf_meta = NoValue
    /\ doc_data = NoModel
    /\ total_paragraphs = 0
    /\ idx = 0
    /\ tidx = 0
    /\ calls = <<>>
    /\ failures = 0
    /\ output = NoValue
    /\ result = "none"

\* extract_pdf_metadata on a page with glyphs, up to the blocks of the
\* page: the lines as the loop leaves them, and the blocks made of them.
ClusterChars ==
    /\ pc = "cluster"
    /\ lines' = ClusterLines(SortChars(input_file.pages[1].chars, TRUE))
    /\ text_blocks' = CharBlocks(input_file.pages[1], 1)
    /\ pc' = "clustered"
    /\ UNCHANGED <<guiVars, compVars, passes, first_pass, argVars, files,
                   percent_to_translate, pdf_meta, doc_data, total_paragraphs,
                   idx, tidx, calls, failures, output, result>>

NextChars == ClusterChars

SpecChars == InitChars /\ [][NextChars]_vars

(***************************************************************************)
(* generate_pdf_direct called on translated models of up to MaxFlowUnits   *)
(* units, as the routes hand them over: the units of a .pdf, each on page  *)
(* 1 or 2, or those of a .docx, which have no 'page'; a unit's translated  *)
(* text is a letter or empty.                                              *)
(***************************************************************************)
MaxFlowUnits == 3

FlowUnits ==
    { RenderUnit(Markers(FALSE, FALSE, FALSE, FALSE), <<>>),
      RenderUnit(Markers(FALSE, FALSE, FALSE, FALSE), <<"a">>) }

FlowModels ==
    { [CallerModel EXCEPT !.paragraphs = [k \in DOMAIN ps |->
                                             [us[k] EXCEPT !.page = ps[k],
                                                           !.text = <<"a">>]],
                          !.tables = <<>>] :
        ps \in UNION { [1..n -> {1, 2}] \cup [1..n -> {0}] : n \in 0..MaxFlowUnits },
        us \in [1..MaxFlowUnits -> FlowUnits] }

InitFlow ==
    /\ IdleGui
    /\ IdleComp
    /\ IdlePass
    /\ IdleConv
    /\ pc = "translated"
    /\ doc_data \in FlowModels
    /\ input_file = IF \E k \in DOMAIN doc_data.paragraphs :
                          doc_data.paragraphs[k].page # 0
                    THEN PdfFile(TRUE, <<>>) ELSE DocxFile(<<>>, <<>>)
    /\ output_pdf = TRUE
    /\ direct_pdf = TRUE
    /\ percent_in = 100
    /\ writable = TRUE
    /\ translator = "same"
    /\ percent_to_translate = 100
    /\ pdf_meta = SimpleMeta
    /\ total_paragraphs = Len(doc_data.paragraphs)
    /\ idx = total_paragraphs + 1
    /\ tidx = 1
    /\ calls = <<>>
    /\ failures = 0
    /\ output = NoValue
    /\ result = "none"

NextFlow == GeneratePdfDirect

SpecFlow == InitFlow /\ [][NextFlow]_vars

(***************************************************************************)
(* The percentage limit alone, on documents of up to MaxTotal units.       *)
(***************************************************************************)
MaxTotal == 50

UnitPara == DocxPara(<<"a">>, T_Normal, 0, <<DocxRun(<<"a">>, FALSE)>>)

InitCut ==
    /\ IdleGui
    /\ IdleComp
    /\ IdlePass
    /\ IdleConv
    /\ pc = "truncate"
    /\ input_file \in { DocxFile([k \in 1..n |-> UnitPara], <<>>) : n \in 0..MaxTotal }
    /\ output_pdf = FALSE
    /\ direct_pdf = FALSE
    /\ percent_in \in 1..99
    /\ writable = TRUE
    /\ translator = "same"
    /\ percent_to_translate = percent_in
    /\ pdf_meta = NoValue
    /\ doc_data = parse_docx(input_file)
    /\ total_paragraphs = 0
    /\ idx = 0
    /\ tidx = 0
    /\ calls = <<>>
    /\ failures = 0
    /\ output = NoValue
    /\ result = "none"

NextCut == Truncate

SpecCut == InitCut /\ [][NextCut]_vars

(***************************************************************************)
(* Claims.                                                                 *)
(***************************************************************************)
\* The text units of the model, and the translator's outcome for unit k.
Units == doc_data.paragraphs

ParaCall(k) == CHOOSE c \in { calls[i] : i \in DOMAIN calls } :
                   c.kind = "para" /\ c.unit = <<0, k>>

\* What the rebuilder reads from a run: its 'translated_text', if it has one.
RunSegment(run) == IF run.translated_text = Absent THEN <<>> ELSE run.translated_text

RunConcat(para) == Concat([k \in DOMAIN para.runs |-> RunSegment(para.runs[k])])

\* C1: after translate_document_content returns, for every text unit with
\* N >= 1 runs, the runs' translated sub-texts concatenated in run order
\* are exactly the unit's translated text.
C1_RunsConcatToTranslated ==
    pc = "translated" =>
        \A k \in DOMAIN Units :
            Len(Units[k].runs) >= 1 => RunConcat(Units[k]) = Units[k].translated_text

\* C2: when the translator raises for unit i, unit i's translated text is
\* its original text, the loop goes on (the call does not raise), and every
\* other unit has the translator's result for its own text.
C2_FailureFallsBackSiblingsUnaffected ==
    pc \in {"translate", "translated"} =>
        /\ idx <= Len(Units) + 1
        /\ \A k \in DOMAIN Units :
            k < idx =>
                Units[k].translated_text =
                    IF ParaCall(k).raised THEN Units[k].text
                    ELSE Apply(translator, Units[k].text)

\* C2, witness: the call has returned, the translator raised for one unit
\* and not for a later one, whose translation differs from its original.
C2_Witness ==
    /\ pc = "translated"
    /\ \E i, j \in DOMAIN Units :
        /\ i < j
        /\ ParaCall(i).raised
        /\ ~ParaCall(j).raised
        /\ Units[i].translated_text = Units[i].text
        /\ Units[j].translated_text # Units[j].text

\* Every cell of a table of the model, under either key.
AllCells(table) ==
    { table.cells[c] : c \in DOMAIN table.cells }
        \cup UNION { { table.rows[r][c] : c \in DOMAIN table.rows[r] } :
                     r \in DOMAIN table.rows }

\* C3: after translation of a model of parse_docx or parse_pdf, every table
\* cell with a non-empty text carries a translated text: the translator's
\* result, or the cell's own text if the translator failed on it.
C3_EveryCellTranslated ==
    (pc = "translated" /\ doc_data.origin \in {"docx", "pdf"}) =>
        \A t \in DOMAIN doc_data.tables :
            \A cell \in AllCells(doc_data.tables[t]) :
                cell.text # <<>> =>
                    \/ cell.translated_text = Apply(translator, cell.text)
                    \/ cell.translated_text = cell.text

\* The percentage in range that the claim equates percent_in with.
InRange(percent) == IF percent <= 0 THEN 1 ELSE IF percent > 100 THEN 100 ELSE percent

\* Whether the job has got past the percentage limit of its route.
Truncated ==
    \/ pc \in {"call_content", "translate", "translated", "note"}
    \/ pc = "done" /\ doc_data # NoModel

\* C4: translate_document clamps the percentage to 1..100 before anything
\* else: a job asked for percent <= 0 keeps the units, states the
\* percentage and returns as one asked for 1, a job asked for more than 100
\* as one asked for 100, and a job only fails for a reason that is not the
\* percentage.
C4_PercentClamped ==
    pc # "call" =>
        /\ percent_to_translate = InRange(percent_in)
        /\ Truncated =>
              Len(doc_data.paragraphs) =
                  IF InRange(percent_in) < 100
                  THEN (total_paragraphs * InRange(percent_in)) \div 100
                  ELSE total_paragraphs
        /\ "percent" \in doc_data.keys => doc_data.percent = InRange(percent_in)
        /\ output # NoValue => output.percent \in {0, InRange(percent_in)}
        /\ (pc = "done" /\ result = "False") =>
              \/ Route = "unsupported"
              \/ ~input_file.readable
              \/ ~writable
              \/ Route = "translate_pdf_to_pdf_direct" /\ pdf_meta.pages = <<>>

\* C4, witness: a job asked for 0 percent of a document with units has
\* returned True, translated none of them and states 1 percent.
C4_Witness ==
    /\ pc = "done"
    /\ percent_in = 0
    /\ result = "True"
    /\ total_paragraphs >= 2
    /\ calls = <<>>
    /\ output.percent = 1

\* C5: with a percentage p < 100 over N extracted units, the unit list is
\* cut to its first floor(N * p / 100) units before the first translator
\* call.
C5_CutToFloorBeforeTranslation ==
    (pc = "call_content" /\ percent_to_translate < 100) =>
        /\ calls = <<>>
        /\ doc_data.paragraphs =
              SubSeq(parse_docx(input_file).paragraphs, 1,
                     (total_paragraphs * percent_to_translate) \div 100)

\* C6: on every route, a job that returns success with a percentage under
\* 100 has written an output that states the percentage and the language
\* pair.
C6_PartialOutputCarriesNote ==
    (pc = "done" /\ result = "True" /\ percent_to_translate < 100) =>
        /\ output # NoValue
        /\ output.percent = percent_to_translate
        /\ output.source_lang = SourceLang
        /\ output.target_lang = TargetLang

UnitKinds == {"heading", "redbox", "box", "centered", "para"}

\* The body items of the output that render a unit as the given kind.
Rendered(kind) == { k \in DOMAIN output.items : output.items[k].kind = kind }

\* C7: when extraction yields a model with zero text units, on every route
\* the job returns success and writes an output with no content unit.
C7_ZeroUnitsStillSucceeds ==
    (pc = "done" /\ Route # "unsupported" /\ doc_data # NoModel
        /\ total_paragraphs = 0 /\ writable) =>
        /\ result = "True"
        /\ output # NoValue
        /\ \A k \in DOMAIN output.items : output.items[k].kind \notin UnitKinds

\* C8: for the briefing page (a centred title 'Mission Briefing' and a
\* callout containing 'Biograph') at 100 percent, wherever the callout is
\* and whether it is centred or not, the output has exactly one unit
\* rendered as a heading and exactly one rendered as a red-bordered
\* container, both tagged page 1.
C8_BriefingOneHeadingOneRedBox ==
    (pc = "done" /\ input_file \in BriefingPdfs /\ percent_to_translate = 100
        /\ writable /\ translator # "empty") =>
        /\ result = "True"
        /\ Cardinality(Rendered("heading")) = 1
        /\ Cardinality(Rendered("redbox")) = 1
        /\ \A k \in Rendered("heading") \cup Rendered("redbox") :
              output.items[k].page = 1

\* C9: with r = len(translated) / len(original), layout_compensation
\* returns scale 0.95 and a negative tracking when r > 1.2, scale 0.98 when
\* 1.1 < r <= 1.2, scale 1.0 and tracking 0 when r <= 1.1, and scale 1.0,
\* tracking 0 when either text is empty.
C9_CompensationThresholds ==
    compensation # NoValue =>
        LET o == Len(original_text)
            t == Len(translated_text)
        IN  /\ (o = 0 \/ t = 0) =>
                compensation.scale = 100 /\ compensation.tracking = 0
            /\ (o > 0 /\ t > 0 /\ 10 * t > 12 * o) =>
                compensation.scale = 95 /\ compensation.tracking < 0
            /\ (o > 0 /\ t > 0 /\ 10 * t > 11 * o /\ 10 * t <= 12 * o) =>
                compensation.scale = 98
            /\ (o > 0 /\ t > 0 /\ 10 * t <= 11 * o) =>
                compensation.scale = 100 /\ compensation.tracking = 0

\* C9, witness: a call with r exactly 1.2 has returned scale 0.98.
C9_Witness ==
    /\ compensation # NoValue
    /\ Len(original_text) > 0
    /\ 10 * Len(translated_text) = 12 * Len(original_text)
    /\ compensation.scale = 98

ClassFlags(block) ==
    <<block.format_markers.is_title, block.format_markers.is_text_box,
      block.format_markers.has_border, block.format_markers.border_color>>

\* C10: a second (and any later) application of the secondary pass leaves
\* every block's is_title, is_text_box, has_border and border_color as the
\* first application left them.
C10_SecondaryPassIdempotent ==
    passes >= 1 =>
        /\ Len(text_blocks) = Len(first_pass)
        /\ \A k \in DOMAIN text_blocks :
            ClassFlags(text_blocks[k]) = ClassFlags(first_pass[k])

\* C10, witness: the pass has run twice over a list with a block that the
\* pass marked as a red box and a block it marked as a title.
C10_Witness ==
    /\ passes = 2
    /\ \E j, k \in DOMAIN text_blocks :
        /\ text_blocks[j].format_markers.border_color = "red"
        /\ text_blocks[k].format_markers.is_title
        /\ ~text_blocks[k].format_markers.is_text_box

\* C11: parse_docx never raises to its caller: for any input path,
\* including one that cannot be opened, a job on a .docx gets a document
\* model from the extractor.
C11_ParseDocxReturnsModel ==
    (input_file.kind = "docx" /\ pc \notin {"call", "extract"}) =>
        doc_data # NoModel

\* C14: for every rebuilder and every text unit of the translated model,
\* the output contains that unit's full translated text exactly once, in
\* order: no unit is emitted empty or left out.
C14_EveryUnitTextEmittedOnce ==
    (pc = "done" /\ result = "True") =>
        LET is_unit == [k \in DOMAIN output.items |->
                           output.items[k].kind \in UnitKinds]
            emitted == SelectSeqIdx(output.items, is_unit)
        IN  [k \in DOMAIN emitted |-> emitted[k].text] =
                [k \in DOMAIN doc_data.paragraphs |->
                    doc_data.paragraphs[k].translated_text]

\* C15: in every structure extract_pdf_metadata returns, on every
\* extraction path and after the secondary pass, a block with is_text_box
\* also has has_border and border_color 'red'.
C15_TextBoxHasRedBorder ==
    pdf_meta # NoValue =>
        \A k \in DOMAIN pdf_meta.text_blocks :
            LET m == pdf_meta.text_blocks[k].format_markers
            IN  m.is_text_box => m.has_border /\ m.border_color = "red"

\* C12: in translate_pdf with PDF output asked for, once the conversion has
\* run without failing and the final PDF exists, the editable intermediate
\* exists exactly when its path is that of the final PDF; also for an
\* output path that does not end in '.pdf'.
C12_IntermediateDeletedUnlessSamePath ==
    (/\ pc = "done"
     /\ pdf_requested
     /\ output # NoValue
     /\ converter \in {"nothing", "writes"}
     /\ pdf_output_path \in files) =>
        (docx_output_path \in files <=> docx_output_path = pdf_output_path)

\* C13: in translate_pdf with PDF output asked for, when the editable
\* intermediate was built and the conversion fails (docx2pdf is not
\* installed, or convert raises), the job returns True and the
\* intermediate exists at its path.
C13_ConversionFailureKeepsEditable ==
    (/\ pc = "done"
     /\ pdf_requested
     /\ output # NoValue
     /\ converter \in {"unavailable", "raises"}) =>
        (result = "True" /\ docx_output_path \in files)

\* C13, its case: the editable document was written to o.docx for the
\* output path o.pdf, and convert raised.
C13_Witness ==
    /\ pc = "done"
    /\ pdf_requested
    /\ output # NoValue
    /\ converter = "raises"
    /\ output_path = OutStem \o T_pdf
    /\ docx_output_path = OutStem \o T_docx
    /\ docx_output_path \in files
    /\ result = "True"

\* The element the rule of the editable rebuild gives a unit: the border
\* of a container is the unit's border colour when it has one, red for a
\* text with a box name and black otherwise.
ClaimedKind(markers, text) ==
    IF markers.is_title THEN "heading"
    ELSE IF markers.is_text_box \/ markers.has_border
         THEN IF markers.border_color = "red" THEN "redbox"
              ELSE IF markers.border_color = "black" THEN "box"
              ELSE IF HasBoxName(text) THEN "redbox" ELSE "box"
         ELSE "para"

\* The elements written for units, in order, a paragraph counted as one
\* kind whatever its alignment.
EmittedKinds ==
    LET is_unit == [k \in DOMAIN output.items |->
                       output.items[k].kind \in UnitKinds]
        emitted == SelectSeqIdx(output.items, is_unit)
    IN  [k \in DOMAIN emitted |->
            IF emitted[k].kind = "centered" THEN "para" ELSE emitted[k].kind]

\* C16: a document written by an editable rebuild (the WordRebuilder on a
\* blank document, rebuild_document on a template) has exactly one
\* element per text unit, in order: a heading for is_title; otherwise
\* for is_text_box or has_border a one-cell container bordered in the
\* unit's border_color when present, red for callout content and black
\* otherwise; otherwise a paragraph.
C16_OneElementPerUnitByMarkers ==
    (pc = "done" /\ output # NoValue /\ output.format = "docx") =>
        EmittedKinds =
            [k \in DOMAIN doc_data.paragraphs |->
                ClaimedKind(doc_data.paragraphs[k].format_markers,
                            doc_data.paragraphs[k].translated_text)]

\* The units a PDF-aware rebuilder renders: those with a translated text.
TranslatedUnits ==
    SelectSeqIdx(doc_data.paragraphs,
                 [k \in DOMAIN doc_data.paragraphs |->
                     doc_data.paragraphs[k].translated_text \notin {Absent, <<>>}])

\* C17: generate_pdf_direct and WordRebuilder.rebuild_document choose the
\* same rendering kind (heading, red bordered block, black bordered
\* block, centered paragraph, left paragraph) for every translated unit:
\* what either of them wrote for a unit is of the kind the other one
\* chooses for it.
C17_RebuildersChooseSameKind ==
    (pc = "done" /\ output # NoValue /\ output.title) =>
        LET is_unit == [k \in DOMAIN output.items |->
                           output.items[k].kind \in UnitKinds]
            emitted == SelectSeqIdx(output.items, is_unit)
        IN  /\ Len(emitted) = Len(TranslatedUnits)
            /\ \A k \in DOMAIN emitted :
                   LET unit == TranslatedUnits[k]
                   IN  emitted[k].kind =
                          IF output.format = "pdf"
                          THEN RenderKind(unit.format_markers, unit.translated_text)
                          ELSE DirectRenderKind(unit.format_markers,
                                                unit.translated_text)

\* C17, its case: generate_pdf_direct drew the red box for a unit that
\* has no border colour, because of the box name in its text.
C17_Witness ==
    /\ pc = "done"
    /\ output # NoValue
    /\ output.format = "pdf"
    /\ Len(TranslatedUnits) = 1
    /\ TranslatedUnits[1].format_markers.border_color = "none"
    /\ ~TranslatedUnits[1].format_markers.is_title
    /\ \E k \in DOMAIN output.items : output.items[k].kind = "redbox"

\* C20: generate_pdf_direct writes a landscape page, of the source's
\* dimensions, for a first page wider than high, and leaves the
\* dimensions of any other first page as they are.
C20_LandscapeKept ==
    (/\ pc = "done"
     /\ output # NoValue
     /\ Route = "translate_pdf_to_pdf_direct") =>
        LET size == pdf_meta.pages[1].size
        IN  (size[1] # 0 /\ size[2] # 0) => output.pagesize = size

\* |a - b|.
Distance(a, b) == IF a >= b THEN a - b ELSE b - a

\* C18: right after the character clustering of a page, before the
\* secondary pass, a block is marked is_title exactly when it is among
\* the first three blocks emitted for the page (lines of whitespace only
\* are not emitted and do not count), its text is shorter than 100
\* characters, and its horizontal midpoint is within 100 of the page's.
C18_TitleAmongFirstThreeBlocks ==
    pc = "clustered" =>
        \A k \in DOMAIN text_blocks :
            LET block == text_blocks[k]
            IN  block.format_markers.is_title <=>
                    /\ k <= TitleLineLimit
                    /\ Len(block.text) < TitleLenLimit
                    /\ Distance(block.bbox[1] + block.bbox[3], PageWidth)
                           < 2 * CenterTolerance

\* Glyph c is not after glyph d in the order by (y0, x0).
NotAfter(c, d) == c.y0 < d.y0 \/ (c.y0 = d.y0 /\ c.x0 <= d.x0)

\* The text is that of the glyphs of the line in some order of ascending
\* x0.
TextLeftToRight(text, line) ==
    /\ Len(text) = Len(line)
    /\ \E p \in [DOMAIN line -> DOMAIN line] :
          /\ \A i, j \in DOMAIN line : i # j => p[i] # p[j]
          /\ \A i \in DOMAIN line : text[i] = line[p[i]].text
          /\ \A i, j \in DOMAIN line : i < j => line[p[i]].x0 <= line[p[j]].x0

\* C19: the lines found are the glyphs of the page in the order by (y0,
\* x0), each glyph in exactly one line; a line starts exactly at a glyph
\* whose y0 differs by more than 5 from that of the glyph before it in
\* this order; the text of each block is that of the glyphs of its line
\* from left to right.
C19_LinesFromChars ==
    pc = "clustered" =>
        LET chars == input_file.pages[1].chars
            flat  == Concat(lines)
            shown == SelectSeqIdx(lines,
                        [k \in DOMAIN lines |->
                            \E i \in DOMAIN lines[k] : ~IsSpace(lines[k][i].text)])
        IN  /\ Len(flat) = Len(chars)
            /\ { flat[i] : i \in DOMAIN flat } = { chars[i] : i \in DOMAIN chars }
            /\ \A i \in 1..(Len(flat) - 1) : NotAfter(flat[i], flat[i + 1])
            /\ \A k \in DOMAIN lines : lines[k] # <<>>
            /\ \A k \in 1..(Len(lines) - 1) :
                   Distance(lines[k + 1][1].y0, Last(lines[k]).y0) > LineGap
            /\ \A k \in DOMAIN lines : \A i \in 1..(Len(lines[k]) - 1) :
                   Distance(lines[k][i + 1].y0, lines[k][i].y0) <= LineGap
            /\ Len(text_blocks) = Len(shown)
            /\ \A k \in DOMAIN shown : TextLeftToRight(text_blocks[k].text, shown[k])

\* The places of a sequence at which keep holds, in order.
Places(keep) == SelectSeqIdx([k \in DOMAIN keep |-> k], keep)

\* C21: in the flow generate_pdf_direct writes, the units stand in the
\* model's order, and a page marker stands immediately before a unit
\* exactly when the unit has a page and is the first unit of the model
\* or is on another page than the unit before it in the model.
C21_PageMarkerAtPageChange ==
    (pc = "done" /\ output # NoValue /\ output.format = "pdf") =>
        LET units == doc_data.paragraphs
            items == output.items
            from  == Places([k \in DOMAIN units |->
                               units[k].translated_text \notin {Absent, <<>>}])
            at    == Places([j \in DOMAIN items |-> items[j].kind \in UnitKinds])
        IN  /\ Len(at) = Len(from)
            /\ \A k \in DOMAIN at :
                   /\ items[at[k]].text = units[from[k]].translated_text
                   /\ (at[k] > 1 /\ items[at[k] - 1].kind = "pagemark") <=>
                          /\ units[from[k]].page # 0
                          /\ \/ from[k] = 1
                             \/ units[from[k]].page # units[from[k] - 1].page

\* A model without the fields translate_document_content writes: the
\* 'translated_text' of its units, runs and cells.
WithoutTranslation(model) ==
    LET bare(x) == [x EXCEPT !.translated_text = Absent]
    IN  [paragraphs |->
            [k \in DOMAIN model.paragraphs |->
                [bare(model.paragraphs[k]) EXCEPT !.runs =
                    [r \in DOMAIN @ |-> bare(@[r])]]],
         tables |->
            [t \in DOMAIN model.tables |->
                [model.tables[t] EXCEPT
                    !.cells = [c \in DOMAIN @ |-> bare(@[c])],
                    !.rows = [r \in DOMAIN @ |->
                                 [c \in DOMAIN @[r] |-> bare(@[r][c])]]]]]

\* C22: every step of translate_document_content, the translator
\* returning or raising, leaves the model as it was but for the
\* 'translated_text' fields: the number and order of the units, runs,
\* tables and cells, and every unit's text, style, markers, page and
\* bounding box and every run's text and attributes.
C22_ContentOnlyAddsFields ==
    [][WithoutTranslation(doc_data') = WithoutTranslation(doc_data)]_vars

\* C22, its case: the translation is over, a translator call raised, and
\* a unit of several runs has its runs' translated texts.
C22_Witness ==
    /\ pc = "translated"
    /\ failures > 0
    /\ \E k \in DOMAIN doc_data.paragraphs :
          /\ Len(doc_data.paragraphs[k].runs) > 1
          /\ doc_data.paragraphs[k].runs[1].translated_text # Absent

\* C23: the document a job through translate_pdf writes for a percentage
\* under 100 holds the text of no unit outside the kept prefix: each of
\* its content units is the translation of a kept unit, and when no unit
\* is kept it has no content unit.
C23_PartialPdfJobWithinPrefix ==
    (/\ pc = "done"
     /\ result = "True"
     /\ Route = "translate_pdf"
     /\ percent_to_translate < 100) =>
        \A j \in DOMAIN output.items :
            output.items[j].kind \in UnitKinds =>
                \E k \in DOMAIN doc_data.paragraphs :
                    output.items[j].text = doc_data.paragraphs[k].translated_text

\* C24: the document translate_docx writes holds each table of the model
\* exactly once: as many tables as the model has, none of them a table of
\* the template left in place.
C24_EachTableOnce ==
    (pc = "done" /\ result = "True" /\ Route = "translate_docx") =>
        Cardinality(Rendered("table")) = Len(doc_data.tables)

\* The number of characters of a list of texts that are not white space.
Ink(texts) ==
    LET text == Concat(texts)
    IN  Cardinality({ i \in DOMAIN text : ~IsSpace(text[i]) })

\* C25: in the structure extract_pdf_metadata returns, the text of a page
\* is in the blocks of that page once, on every path: the blocks of a
\* page hold together as many non-blank characters as the page has
\* (its glyphs when they are clustered, else the paragraphs of its text).
C25_PageTextInOneBlock ==
    (pdf_meta # NoValue /\ pdf_meta.pages # <<>>) =>
        \A n \in DOMAIN input_file.pages :
            LET page   == input_file.pages[n]
                on_n   == SelectSeqIdx(pdf_meta.text_blocks,
                             [k \in DOMAIN pdf_meta.text_blocks |->
                                 pdf_meta.text_blocks[k].page = n])
                source == IF page.sortable /\ page.chars # <<>>
                          THEN [i \in DOMAIN page.chars |-> <<page.chars[i].text>>]
                          ELSE page.paragraphs
            IN  Ink([k \in DOMAIN on_n |-> on_n[k].text]) = Ink(source)

\* C26: after a call of translate_document that returned True, the file
\* at output_path has the format the extension of output_path names: a
\* PDF when the path ends in '.pdf', an editable document otherwise, for
\* either input type and either value of direct_pdf.
C26_OutputFormatMatchesExtension ==
    (pc = "done" /\ result = "True") =>
        /\ output_path \in files
        /\ output.format = IF EndsWith(output_path, T_pdf) THEN "pdf" ELSE "docx"

(***************************************************************************)
(* The window of gui/app.py.  The main thread runs one handler at a time;  *)
(* each background thread puts its messages on message_queue one at a      *)
(* time, and check_queue, a handler of the main thread, takes them.        *)
(***************************************************************************)
MaxJobs == 2

\* A message on the queue or in the chat area: its type or role, what it
\* says, and the background thread that put it (0 when a handler
\* displayed it).
Message(type, text, job) == [type |-> type, text |-> text, job |-> job]

\* threading.Thread(target, args).start(), after the handler has set the
\* window to busy.
StartThread(target, input_path) ==
    /\ Len(workers) < MaxJobs
    /\ is_sending' = TRUE
    /\ workers' = Append(workers, [target |-> target, input_path |-> input_path,
                                   pc |-> "run", returned |-> "none",
                                   finally |-> <<>>])
    /\ UNCHANGED displayed

toggle_translation_mode ==
    /\ ~polling
    /\ translation_mode' = ~translation_mode
    /\ UNCHANGED <<has_translation, attachment_path, is_sending, message_queue,
                   workers, polling, displayed>>

\* upload_attachment, the dialog returning the path of one of two files.
upload_attachment ==
    /\ ~polling
    /\ \E file_path \in {"a.docx", "b.pdf"} :
          attachment_path' = file_path
    /\ UNCHANGED <<translation_mode, has_translation, is_sending, message_queue,
                   workers, polling, displayed>>

start_translation ==
    IF ~has_translation
    THEN /\ displayed' = displayed \cup {Message("error", "unavailable", 0)}
         /\ UNCHANGED <<is_sending, workers>>
    ELSE StartThread("_translate_document", attachment_path)

translate_text ==
    IF ~has_translation
    THEN /\ displayed' = displayed \cup {Message("error", "unavailable", 0)}
         /\ UNCHANGED <<is_sending, workers>>
    ELSE StartThread("_translate_text", "none")

\* send_message, the button or Control-Return: message is whether the
\* input field holds text.
send_message ==
    /\ ~polling
    /\ ~is_sending
    /\ \E message \in BOOLEAN :
          IF translation_mode
          THEN IF attachment_path # "none" THEN start_translation
               ELSE message /\ translate_text
          ELSE message /\ StartThread("_process_message", "none")
    /\ UNCHANGED <<translation_mode, has_translation, attachment_path,
                   message_queue, polling>>

\* A background thread: its call ends and it puts the first message.
\* translate_document returns True or False or raises, translate_text
\* returns or raises, the reply of _process_message is built without a
\* call.  What is left are the statements of the finally block.
ThreadReports ==
    \E job \in DOMAIN workers :
        LET target   == workers[job].target
            outcomes == IF target = "_translate_document"
                        THEN {"True", "False", "raises"}
                        ELSE IF target = "_translate_text"
                        THEN {"returns", "raises"}
                        ELSE {"returns"}
            first(outcome) ==
                IF outcome = "raises" THEN Message("error", "error", job)
                ELSE IF target = "_translate_document"
                THEN Message("system", "completed", job)
                ELSE IF target = "_translate_text"
                THEN Message("translation", "result", job)
                ELSE Message("assistant", "reply", job)
        IN  /\ workers[job].pc = "run"
            /\ \E outcome \in outcomes :
                  /\ message_queue' = Append(message_queue, first(outcome))
                  /\ workers' = [workers EXCEPT
                         ![job].pc = "finally",
                         ![job].returned = outcome,
                         ![job].finally =
                             IF target = "_translate_document"
                             THEN <<"reset_ui", "clear_attachment">>
                             ELSE <<"reset_ui">>]
            /\ UNCHANGED <<translation_mode, has_translation, attachment_path,
                           is_sending, polling, displayed>>

\* A background thread in its finally block: the next put.
ThreadPuts ==
    \E job \in DOMAIN workers :
        LET left == workers[job].finally
        IN  /\ workers[job].pc = "finally"
            /\ message_queue' = Append(message_queue,
                                       Message(Head(left), "none", job))
            /\ workers' = [workers EXCEPT
                   ![job].finally = Tail(left),
                   ![job].pc = IF Tail(left) = <<>> THEN "done" ELSE "finally"]
            /\ UNCHANGED <<translation_mode, has_translation, attachment_path,
                           is_sending, polling, displayed>>

\* check_queue on a message that leaves is_sending as it is.
ResetUi_never(message_type, sending) == sending

\* check_queue: is_sending after a message of the given type.
ResetUi(message_type, sending) ==
    IF message_type = "reset_ui" THEN FALSE ELSE sending

\* check_queue, one turn of its loop: the message at the head of the
\* queue, or get_nowait raising queue.Empty, which ends the loop and
\* schedules the next call.
check_queue ==
    /\ IF message_queue # <<>>
       THEN LET msg == Head(message_queue)
            IN  /\ message_queue' = Tail(message_queue)
                /\ is_sending' = ResetUi(msg.type, is_sending)
                /\ attachment_path' =
                       IF msg.type = "clear_attachment" THEN "none"
                       ELSE attachment_path
                /\ displayed' =
                       IF msg.type \in {"reset_ui", "clear_attachment"}
                       THEN displayed
                       ELSE displayed \cup {Message(msg.type, msg.text, msg.job)}
                /\ polling' = TRUE
       ELSE /\ polling
            /\ polling' = FALSE
            /\ UNCHANGED <<attachment_path, is_sending, message_queue, displayed>>
    /\ UNCHANGED <<translation_mode, has_translation, workers>>

InitGui ==
    /\ IdleComp
    /\ IdlePass
    /\ IdleJob
    /\ translation_mode = FALSE
    /\ has_translation \in BOOLEAN
    /\ attachment_path = "none"
    /\ is_sending = FALSE
    /\ message_queue = <<>>
    /\ workers = <<>>
    /\ polling = FALSE
    /\ displayed = {}

NextGui ==
    \/ toggle_translation_mode /\ UNCHANGED <<compVars, passVars, jobVars>>
    \/ upload_attachment /\ UNCHANGED <<compVars, passVars, jobVars>>
    \/ send_message /\ UNCHANGED <<compVars, passVars, jobVars>>
    \/ ThreadReports /\ UNCHANGED <<compVars, passVars, jobVars>>
    \/ ThreadPuts /\ UNCHANGED <<compVars, passVars, jobVars>>
    \/ check_queue /\ UNCHANGED <<compVars, passVars, jobVars>>

SpecGui == InitGui /\ [][NextGui]_vars

\* The steps of the background threads, and of check_queue.
Threads ==
    /\ ThreadReports \/ ThreadPuts
    /\ UNCHANGED <<compVars, passVars, jobVars>>

Polls == check_queue /\ UNCHANGED <<compVars, passVars, jobVars>>

\* The window with its scheduling: a thread that can put a message does
\* so (the calls of the threads return or raise), and check_queue, which
\* schedules itself again every 100 ms while the window is open, takes the
\* message at the head of the queue.
SpecGuiFair == SpecGui /\ WF_vars(Threads) /\ WF_vars(Polls)

\* The messages of a background thread that check_queue has not taken.
Pending(job) ==
    { k \in DOMAIN message_queue : message_queue[k].job = job }

\* C27: the window shows 'Translation completed' for a document job only
\* when the job's call of translate_document returned True, and once the
\* messages of a job whose call returned False are taken, the window shows
\* an error for it.
C27_CompletedOnlyWhenTrue ==
    \A job \in DOMAIN workers :
        workers[job].target = "_translate_document" =>
            /\ Message("system", "completed", job) \in displayed =>
                   workers[job].returned = "True"
            /\ (/\ workers[job].returned = "False"
                /\ Pending(job) = {}) =>
                   Message("error", "error", job) \in displayed

\* C28: at most one background thread is at work at any time: no thread
\* is started while a thread started before it has messages left to put.
C28_OneWorkerAtATime ==
    Cardinality({ job \in DOMAIN workers : workers[job].pc # "done" }) <= 1

\* C30: check_queue taking a job's 'clear_attachment' clears the attachment
\* the job translated and no other: an attachment of another path,
\* selected while the job ran or after the window was reset, is still set
\* afterwards.
C30_ClearsTranslatedAttachment ==
    [][(/\ message_queue # <<>>
        /\ Head(message_queue).type = "clear_attachment"
        /\ message_queue' = Tail(message_queue)) =>
            attachment_path' =
                IF attachment_path = workers[Head(message_queue).job].input_path
                THEN "none" ELSE attachment_path]_vars

\* C29: under fair polling of the queue every background job, its call
\* returning or raising, is followed by a reset of the window: whenever
\* is_sending is set it is eventually false again.
C29_ResetFollowsEveryJob == is_sending ~> ~is_sending

\* C29, its case: the call of a job raised, its messages are taken and
\* the window is reset.
C29_Witness ==
    \E job \in DOMAIN workers :
        /\ workers[job].returned = "raises"
        /\ workers[job].pc = "done"
        /\ Pending(job) = {}
        /\ ~is_sending

=============================================================================
